---- MODULE Spec2Model ----
(***************************************************************************)
(* A model of the CNC factory simulator: the per-machine operational-cycle *)
(* engine (CNCDataGenerator), the fleet factory                            *)
(* (CNCDataGeneratorFactory), the publisher client (UMHClient), the        *)
(* message adapter (UMHAdapter) and the two schedulers                     *)
(* (UMHSimulationManager over HTTP, SimulationManager over MQTT).          *)
(*                                                                         *)
(* Time (Date.getTime()) is in milliseconds.  Math.random() is sampled at  *)
(* the points k / RandDen, k \in 0 .. RandDen-1.  A cycle duration is      *)
(* kept exactly, in units of 1/RandDen second: the code's                  *)
(* `Math.random() * range + base` seconds is  k * range + base * RandDen   *)
(* units.                                                                  *)
(***************************************************************************)
EXTENDS Integers, Sequences, FiniteSets, TLC

VARIABLES
  now,            \* the wall clock, ms (new Date() / Date.now())
  CNC_MACHINES,   \* the roster: machine_id -> machine configuration
  generators,     \* CNCDataGeneratorFactory.generators: machine_id -> engine
  umhClient,      \* the UMHClient: <<>> (null) or <<[retries |-> n]>>
  pubCall,        \* a UMHClient.publish call made directly by a caller
  sink,           \* the messages UMH-Core accepted: message -> count
  mqttClient,     \* SimulationManager.mqttClient: <<>> (null) or <<client>>
  config,         \* UMHSimulationManager.config
  isRunning,      \* UMHSimulationManager.isRunning
  publishTimer,   \* UMHSimulationManager.publishTimer: a handle is held
  timers,         \* the number of interval timers that are armed
  startTime,      \* UMHSimulationManager.startTime
  metrics,        \* UMHSimulationManager.metrics
  connecting,     \* the number of start() calls awaiting connect()
  ticks,          \* the publishSensorData() calls made so far, in order
  lastReadings,   \* what a direct call of generateSensorReadings() returned
  adapterCall,    \* a call of the UMHAdapter made directly by a caller
  lifecycle,      \* the calls of startSimulation() and stopSimulation(), and
                  \* the calls of start() and stop() of callers that do not
                  \* await one another, in order
  snapshot,       \* what a call of getMetrics() returned: <<>> or <<object>>
  instance,       \* the static field `instance` holds the scheduler above
  orphans,        \* the schedulers that startSimulation() replaced while they
                  \* could still act, in order
  closing,        \* the calls that have reached an await and not resumed,
                  \* in order: a stopSimulation() that awaits stop(), a
                  \* cleanup() of the MQTT scheduler `owner` (0: the one
                  \* above, o: orphans[o]) that awaits the callback of
                  \* end(), a stop() of the standalone scheduler that
                  \* awaits endAsync()
  listening       \* an MQTT client of the scheduler above is no longer
                  \* awaited by the start() that made it ('connect' or
                  \* 'error' settled it), its 'error' handler registered

engineVars == <<now, CNC_MACHINES, generators>>
pubVars == <<umhClient, pubCall, sink, mqttClient>>
managerVars == <<config, isRunning, publishTimer, timers, startTime, metrics,
                 connecting, ticks>>
processVars == <<instance, orphans, closing, listening>>
callVars == <<lastReadings, adapterCall, lifecycle, snapshot, processVars>>
vars == <<now, CNC_MACHINES, generators, umhClient, pubCall, sink, mqttClient, config,
          isRunning, publishTimer, timers, startTime, metrics, connecting, ticks,
          lastReadings, adapterCall, lifecycle, snapshot, instance, orphans, closing,
          listening>>

-----------------------------------------------------------------------------
(* Bounds of the model                                                     *)

\* Math.random() is sampled at k / RandDen
RandDen == 10
\* the clock stops after MaxClockSteps steps
MaxClockSteps == 10
\* the largest retry ceiling a client is configured with
MaxRetries == 6
\* a direct caller of publish stops once the sink holds MaxDelivered messages
MaxDelivered == 2
\* the timer of the scheduler fires at most MaxTicks times
MaxTicks == 1
\* the first MaxReadings readings of a machine are followed
MaxReadings == 2
\* the largest configured batch size
MaxBatchSize == 2
\* the clock of the scheduler stops after MaxSchedulerSteps steps
MaxSchedulerSteps == 1
\* connect() stops failing once the error list holds MaxErrors entries
MaxErrors == 1
\* at most MaxMqttTicks ticks of the MQTT scheduler are followed
MaxMqttTicks == 1
\* a tick of the validation check is given MaxCandidates readings
MaxCandidates == 2
\* at most MaxRecorded errors are recorded in a row
MaxRecorded == 12
\* at most MaxOutageTicks ticks are followed while every publish is rejected
MaxOutageTicks == 2
\* the sensor keys given to the adapter have at most MaxKeyLen characters
MaxKeyLen == 3
\* the clock of the factory stops after MaxFactorySteps steps of ten minutes
MaxFactorySteps == 3
\* the sine of the spindle speed is sampled at the multiples of 1/SinDen
SinDen == 2
\* the clock of an engine that is ticked at every period stops after
\* MaxLiveSteps periods
MaxLiveSteps == 30
\* at most MaxCalls calls of start() and stop() are made by callers that
\* do not await one another, and at most MaxCalls starts of the standalone
\* scheduler are followed
MaxCalls == 3
\* a caller that starts and stops in both ways, and callers of the MQTT
\* scheduler that do not await one another, make at most MaxStaticCalls
\* calls of startSimulation() and stopSimulation()
MaxStaticCalls == 2
\* the clock of the standalone scheduler stops after MaxRounds periods
MaxRounds == 3
\* the standalone scheduler counts at most MaxStandaloneErrors errors
MaxStandaloneErrors == 2

Draws == 0 .. (RandDen - 1)
\* the instants at which the clock is read, ms: every ten minutes (the
\* shortest machining phase, so that elapsed time meets a planned duration
\* exactly) and 45 s after (inside the loading and unloading ranges)
Instants == {i * 600000 + o : i \in 1 .. MaxClockSteps, o \in {0, 45000}}

\* the instant the process starts at
StartInstant == 600 * 1000

-----------------------------------------------------------------------------
(* CNCDataGenerator: the operational cycle                                 *)

Phases == {"idle", "loading", "machining", "unloading", "maintenance", "error"}

\* the value Infinity of a duration (never reached by elapsed time)
Infinity == -1

\* n seconds as a duration
Sec(n) == n * RandDen

\* Math.random() * range + base, for the draw k / RandDen
RandomDuration(k, range, base) == k * range + base * RandDen

\* a variant of PhaseCompleted: elapsedSeconds > duration
PhaseCompleted_Strict(cycle, t) ==
  /\ cycle.duration # Infinity
  /\ (t - cycle.startTime) * RandDen > cycle.duration * 1000

\* elapsedSeconds >= duration, elapsedSeconds = (t - startTime) / 1000
PhaseCompleted(cycle, t) ==
  /\ cycle.duration # Infinity
  /\ (t - cycle.startTime) * RandDen >= cycle.duration * 1000

\* a variant of initializeCycle: the status checks are missing
initializeCycle_AllOperational(status, t, k) ==
  [startTime |-> t, duration |-> RandomDuration(k, 300, 60), phase |-> "idle"]

initializeCycle(status, t, k) ==
  IF status = "maintenance"
    THEN [startTime |-> t, duration |-> Sec(3600), phase |-> "maintenance"]
  ELSE IF status = "offline"
    THEN [startTime |-> t, duration |-> Infinity, phase |-> "idle"]
  ELSE [startTime |-> t, duration |-> RandomDuration(k, 300, 60), phase |-> "idle"]

\* the unloading branch: random < 0.05 error, random < 0.15 maintenance
UnloadingBranch(kb) ==
  IF kb * 100 < 5 * RandDen THEN "error"
  ELSE IF kb * 100 < 15 * RandDen THEN "maintenance"
  ELSE "idle"

\* a variant of NextPhase: recovery from maintenance or an error goes
\* straight to loading
NextPhase_RecoverToLoading(phase, kb) ==
  CASE phase = "idle" -> "loading"
    [] phase = "loading" -> "machining"
    [] phase = "machining" -> "unloading"
    [] phase = "unloading" -> UnloadingBranch(kb)
    [] phase \in {"maintenance", "error"} -> "loading"

\* a variant of NextPhase: an error is never resolved
NextPhase_ErrorStays(phase, kb) ==
  CASE phase = "idle" -> "loading"
    [] phase = "loading" -> "machining"
    [] phase = "machining" -> "unloading"
    [] phase = "unloading" -> UnloadingBranch(kb)
    [] phase = "maintenance" -> "idle"
    [] phase = "error" -> "error"

\* the phase advanceCyclePhase switches to; kb is the draw of the branch
NextPhase(phase, kb) ==
  CASE phase = "idle" -> "loading"
    [] phase = "loading" -> "machining"
    [] phase = "machining" -> "unloading"
    [] phase = "unloading" -> UnloadingBranch(kb)
    [] phase \in {"maintenance", "error"} -> "idle"

\* a variant of NewDuration: the upper end of a range is used as its width
NewDuration_WidthIsMax(phase, k) ==
  CASE phase = "loading" -> RandomDuration(k, 150, 30)
    [] phase = "machining" -> RandomDuration(k, 2400, 600)
    [] phase = "unloading" -> RandomDuration(k, 75, 15)
    [] phase = "error" -> RandomDuration(k, 900, 300)
    [] phase = "maintenance" -> RandomDuration(k, 4500, 900)
    [] phase = "idle" -> RandomDuration(k, 360, 60)

\* the duration advanceCyclePhase gives the phase it enters; k is the draw
NewDuration(phase, k) ==
  CASE phase = "loading" -> RandomDuration(k, 120, 30)
    [] phase = "machining" -> RandomDuration(k, 1800, 600)
    [] phase = "unloading" -> RandomDuration(k, 60, 15)
    [] phase = "error" -> RandomDuration(k, 600, 300)
    [] phase = "maintenance" -> RandomDuration(k, 3600, 900)
    [] phase = "idle" -> RandomDuration(k, 300, 60)

\* a variant of NextCycle: the start time of the old phase is kept
NextCycle_KeepStart(cycle, t, kb, k) ==
  [startTime |-> cycle.startTime,
   duration |-> NewDuration(NextPhase(cycle.phase, kb), k),
   phase |-> NextPhase(cycle.phase, kb)]

\* this.currentCycle = { phase, duration, startTime: now }
NextCycle(cycle, t, kb, k) ==
  [startTime |-> t,
   duration |-> NewDuration(NextPhase(cycle.phase, kb), k),
   phase |-> NextPhase(cycle.phase, kb)]

\* a variant of PartsAfterAdvance: the part is counted when unloading ends
PartsAfterAdvance_OnUnloaded(g) ==
  IF g.currentCycle.phase = "unloading"
    THEN g.totalPartsProduced + 1
    ELSE g.totalPartsProduced

\* totalPartsProduced++ of the machining case
PartsAfterAdvance(g) ==
  IF g.currentCycle.phase = "machining"
    THEN g.totalPartsProduced + 1
    ELSE g.totalPartsProduced

advanceCyclePhase(g, t, kb, k) ==
  [g EXCEPT !.currentCycle = NextCycle(g.currentCycle, t, kb, k),
            !.totalPartsProduced = PartsAfterAdvance(g)]

\* a variant of updateCycle: a phase that is over is taken to have ended at
\* its planned end, and the phase that follows is advanced too if it is over
\* as well
updateCycle_CatchUp(g, t, kb, k) ==
  IF PhaseCompleted(g.currentCycle, t)
    THEN LET h == advanceCyclePhase(g, t, kb, k)
             early == [h EXCEPT !.currentCycle.startTime =
                                   g.currentCycle.startTime
                                   + (g.currentCycle.duration * 1000) \div RandDen]
         IN IF PhaseCompleted(early.currentCycle, t)
              THEN advanceCyclePhase(early, t, kb, k)
              ELSE early
    ELSE g

\* updateCycle() when its new Date() is t1 and the new Date() of
\* advanceCyclePhase() is t2
updateCycleOver(g, t1, t2, kb, k) ==
  IF PhaseCompleted(g.currentCycle, t1)
    THEN advanceCyclePhase(g, t2, kb, k)
    ELSE g

\* updateCycle() while the clock stands at t
updateCycle(g, t, kb, k) == updateCycleOver(g, t, t, kb, k)

\* the engine after generateSensorReadings() at time t
generateSensorReadings(g, t, kb, k) ==
  [updateCycle(g, t, kb, k) EXCEPT !.lastUpdate = t]

\* the engine after generateSensorReadings() while the clock moves:
\* reads[1] is what updateCycle reads, reads[2] what advanceCyclePhase
\* reads, reads[3] the `const now = new Date()` that becomes lastUpdate
generateSensorReadingsOver(g, reads, kb, k) ==
  [updateCycleOver(g, reads[1], reads[2], kb, k) EXCEPT !.lastUpdate = reads[3]]

\* the tools whose wear the constructor sets: 1 .. ToolCount
ToolCount == 20

\* a wear factor w stands for w / WearDen
WearDen == 10 * RandDen

\* a variant of InitialWear: Math.random() * 30, the wear as a percentage
InitialWear_Percent(k) == 300 * k

\* Math.random() * 0.3 for the draw k / RandDen, over WearDen
InitialWear(k) == 3 * k

\* the draws of a constructor after that of initializeCycle: one for each
\* baseline and one for each tool
RuntimeDraws(S) ==
  [vibration : S, temperature : S, wear : [1 .. ToolCount -> S]]

\* the least draws: where the baselines and the wear are not followed, the
\* engines are built with these
LeastDraws ==
  [vibration |-> 0, temperature |-> 0, wear |-> [i \in 1 .. ToolCount |-> 0]]

\* new CNCDataGenerator(machine) at time t; k is the draw of
\* initializeCycle, r the other draws.  vibrationBaseline (Math.random() *
\* 0.5 + 0.1) is kept over 10 * RandDen, temperatureBaseline (Math.random()
\* * 10 + 45) over RandDen
NewGenerator(status, t, k, r) ==
  [currentCycle |-> initializeCycle(status, t, k),
   totalPartsProduced |-> 0,
   lastUpdate |-> t,
   cycleStartTime |-> t,
   toolWearFactors |-> [i \in 1 .. ToolCount |-> InitialWear(r.wear[i])],
   vibrationBaseline |-> 5 * r.vibration + RandDen,
   temperatureBaseline |-> 10 * r.temperature + 45 * RandDen]

\* Math.round(x / y) for x >= 0, y > 0
RoundDiv(x, y) == (2 * x + y) \div (2 * y)

\* the payload generateCurrentToolPayload builds when Date.now() is t
generateCurrentToolPayload(g, t) ==
  LET toolNumber ==
        IF g.currentCycle.phase = "machining"
          THEN ((t - g.currentCycle.startTime) * RandDen * 5)
                 \div (g.currentCycle.duration * 1000) + 1
          ELSE 1
      toolWear ==
        IF toolNumber \in DOMAIN g.toolWearFactors
          THEN g.toolWearFactors[toolNumber]
          ELSE 0
  IN [phase |-> g.currentCycle.phase,
      value |-> toolNumber,
      quality |-> IF 10 * toolWear > 8 * WearDen THEN "uncertain" ELSE "good",
      tool_wear_percent |-> RoundDiv(toolWear * 100, WearDen),
      tool_life_remaining |-> RoundDiv((WearDen - toolWear) * 100, WearDen)]

\* Math.sin(Date.now() / 10000) is sampled at s / SinDen, s \in SinSamples
SinSamples == (0 - SinDen) .. SinDen

\* Math.max(0, Math.round(x / y)) for y > 0
RoundNonNegative(x, y) == IF x <= 0 THEN 0 ELSE RoundDiv(x, y)

\* a variant of generateSpindleSpeedPayload: the variation is half of the
\* base speed
generateSpindleSpeedPayload_WideSwing(machine, g, k, s) ==
  LET max == machine.spindle_rpm_max
  IN [phase |-> g.currentCycle.phase,
      value |->
        CASE g.currentCycle.phase = "machining" ->
               RoundNonNegative(max * (3 * RandDen + 6 * k) * (2 * SinDen + s),
                                10 * RandDen * 2 * SinDen)
          [] g.currentCycle.phase \in {"loading", "unloading"} ->
               RoundNonNegative(max, 10)
          [] OTHER -> 0,
      max_rpm |-> max]

\* the payload generateSpindleSpeedPayload builds with the draw k / RandDen
\* and the sine s / SinDen: in machining baseRpm is max * (0.3 + random *
\* 0.6) and rpm is baseRpm + sine * baseRpm * 0.1, that is
\* max * (3 RandDen + 6 k) * (10 SinDen + s) / (10 RandDen * 10 SinDen)
generateSpindleSpeedPayload(machine, g, k, s) ==
  LET max == machine.spindle_rpm_max
  IN [phase |-> g.currentCycle.phase,
      value |->
        CASE g.currentCycle.phase = "machining" ->
               RoundNonNegative(max * (3 * RandDen + 6 * k) * (10 * SinDen + s),
                                10 * RandDen * 10 * SinDen)
          [] g.currentCycle.phase \in {"loading", "unloading"} ->
               RoundNonNegative(max, 10)
          [] OTHER -> 0,
      max_rpm |-> max]

\* the payload generateOperationalStatusPayload builds: the phase is mapped
\* to a detailed status only when the machine is classified operational
generateOperationalStatusPayload(machine, g) ==
  [value |->
     IF machine.operational_status = "operational"
       THEN CASE g.currentCycle.phase = "machining" -> "running"
              [] g.currentCycle.phase \in {"loading", "unloading"} -> "setup"
              [] g.currentCycle.phase = "idle" -> "idle"
              [] g.currentCycle.phase = "error" -> "error"
              [] g.currentCycle.phase = "maintenance" -> "maintenance"
       ELSE machine.operational_status,
   base_status |-> machine.operational_status,
   cycle_phase |-> g.currentCycle.phase]

-----------------------------------------------------------------------------
(* The engine alone: one machine of any classification, ticked directly    *)

Statuses == {"operational", "maintenance", "offline"}

\* a string is the sequence of its characters.  getLocationConfig(): the
\* enterprise and the site, with no environment variable set
Enterprise == <<"d", "e", "m", "o", "-", "f", "a", "c", "t", "o", "r", "y">>
Site == <<"p", "l", "a", "n", "t", "1">>

\* the roster entries used, in the order of CNC_MACHINES: cnc-001
\* (operational, 3 axes, 8100 rpm), cnc-006 (under maintenance, 5 axes,
\* 6000 rpm), cnc-010 (offline, 5 axes, 15000 rpm)
MachineIds == <<"cnc-001", "cnc-006", "cnc-010">>

Roster ==
  [m \in {"cnc-001", "cnc-006", "cnc-010"} |->
     CASE m = "cnc-001" ->
            [spindle_rpm_max |-> 8100, operational_status |-> "operational",
             machine_id |-> <<"c", "n", "c", "-", "0", "0", "1">>,
             enterprise |-> Enterprise, site |-> Site,
             area |-> <<"m", "a", "c", "h", "i", "n", "i", "n", "g">>,
             work_cell |-> <<"c", "e", "l", "l", "-", "0", "1">>,
             axes |-> 3, coolant_system |-> TRUE]
       [] m = "cnc-006" ->
            [spindle_rpm_max |-> 6000, operational_status |-> "maintenance",
             machine_id |-> <<"c", "n", "c", "-", "0", "0", "6">>,
             enterprise |-> Enterprise, site |-> Site,
             area |-> <<"m", "u", "l", "t", "i", "-", "a", "x", "i", "s">>,
             work_cell |-> <<"c", "e", "l", "l", "-", "0", "3">>,
             axes |-> 5, coolant_system |-> TRUE]
       [] OTHER ->
            [spindle_rpm_max |-> 15000, operational_status |-> "offline",
             machine_id |-> <<"c", "n", "c", "-", "0", "1", "0">>,
             enterprise |-> Enterprise, site |-> Site,
             area |-> <<"p", "r", "e", "c", "i", "s", "i", "o", "n">>,
             work_cell |-> <<"c", "e", "l", "l", "-", "0", "6">>,
             axes |-> 5, coolant_system |-> TRUE]]

\* the classification of machine m
Status(m) == CNC_MACHINES[m].operational_status

\* no client, no call, nothing delivered
NoPublisher ==
  /\ umhClient = <<>>
  /\ pubCall = [pc |-> "idle"]
  /\ sink = <<>>
  /\ mqttClient = <<>>

\* no reading returned to a caller, no call of the adapter, of start(), of
\* stop() or of getMetrics(); the static field is null, no scheduler was
\* replaced, no call is at an await and no client has been made
NoCall ==
  /\ lastReadings = <<>>
  /\ adapterCall = [pc |-> "idle"]
  /\ lifecycle = <<>>
  /\ snapshot = <<>>
  /\ instance = FALSE
  /\ orphans = <<>>
  /\ closing = <<>>
  /\ listening = FALSE

\* metrics as the constructor of the manager sets them
NewMetrics ==
  [totalMessagesPublished |-> 0,
   messagesPerSecond |-> 0,
   activeMachines |-> 0,
   uptime |-> 0,
   errors |-> <<>>,
   batchesSent |-> 0]

\* no scheduler
NoManager ==
  /\ config = [batchSize |-> <<>>]
  /\ isRunning = FALSE
  /\ publishTimer = FALSE
  /\ timers = 0
  /\ startTime = now
  /\ metrics = NewMetrics
  /\ connecting = 0
  /\ ticks = <<>>

InitEngine ==
  /\ now = StartInstant
  /\ \E m \in DOMAIN Roster : CNC_MACHINES = [x \in {m} |-> Roster[m]]
  /\ \E k \in Draws :
       generators = [m \in DOMAIN CNC_MACHINES |-> NewGenerator(Status(m), now, k, LeastDraws)]
  /\ NoPublisher
  /\ NoCall
  /\ NoManager

AdvanceClock ==
  /\ \E t \in Instants :
       /\ t > now
       /\ now' = t
  /\ UNCHANGED <<CNC_MACHINES, generators>>
  /\ UNCHANGED callVars
  /\ UNCHANGED pubVars
  /\ UNCHANGED managerVars

\* generator.generateSensorReadings()
Tick(m) ==
  /\ \E kb \in Draws, k \in Draws :
       generators' = [generators EXCEPT
                        ![m] = generateSensorReadings(generators[m], now, kb, k)]
  /\ UNCHANGED <<now, CNC_MACHINES>>
  /\ UNCHANGED callVars
  /\ UNCHANGED pubVars
  /\ UNCHANGED managerVars

NextEngine ==
  \/ AdvanceClock
  \/ \E m \in DOMAIN CNC_MACHINES : Tick(m)

SpecEngine == InitEngine /\ [][NextEngine]_vars

-----------------------------------------------------------------------------
(* UMHAdapter: readings to UMH messages.  A reading is                     *)
(* [machine, sensorType, value, timestamp]: machine is the configuration   *)
(* of its machine, value is payload.value (<<>> when undefined or null,    *)
(* else <<v>>), timestamp is new Date(payload.timestamp).getTime() (<<>>   *)
(* when NaN, else <<ms>>).  A number that is infinite is <<Infinity>>.  Of *)
(* the metadata the three required fields are followed.                    *)

\* s.startsWith(prefix)
StartsWith(s, prefix) ==
  /\ Len(s) >= Len(prefix)
  /\ SubSeq(s, 1, Len(prefix)) = prefix

\* UMH_DATA_CONTRACTS.RAW
RAW == <<"_", "r", "a", "w">>

\* buildUMHTopic
buildUMHTopic(components) ==
  <<"u", "m", "h", ".", "v", "1", ".">>
  \o components.enterprise \o <<".">> \o components.site \o <<".">>
  \o components.area \o <<".">> \o components.work_cell \o <<".">>
  \o components.machine \o <<".">> \o components.data_contract \o <<".">>
  \o components.tag_name

\* buildLocationPath
buildLocationPath(enterprise, site, area, work_cell, machine) ==
  enterprise \o <<".">> \o site \o <<".">> \o area \o <<".">>
  \o work_cell \o <<".">> \o machine

\* a variant of TagName: sensorType.replace('-', '_'), which replaces the
\* first hyphen only
TagName_FirstOnly(sensorType) ==
  [i \in DOMAIN sensorType |->
     IF sensorType[i] = "-" /\ \A j \in 1 .. (i - 1) : sensorType[j] # "-"
       THEN "_" ELSE sensorType[i]]

\* sensorType.replace(/-/g, '_')
TagName(sensorType) ==
  [i \in DOMAIN sensorType |-> IF sensorType[i] = "-" THEN "_" ELSE sensorType[i]]

\* UMHAdapter.convertToUMHMessage
convertToUMHMessage(reading) ==
  [payload |-> [value |-> reading.value, timestamp_ms |-> reading.timestamp],
   metadata |->
     [data_contract |-> RAW,
      tag_name |-> TagName(reading.sensorType),
      location_path |->
        buildLocationPath(reading.machine.enterprise, reading.machine.site,
                          reading.machine.area, reading.machine.work_cell,
                          reading.machine.machine_id)],
   topic |->
     buildUMHTopic([machine |-> reading.machine.machine_id,
                    enterprise |-> reading.machine.enterprise,
                    site |-> reading.machine.site,
                    area |-> reading.machine.area,
                    work_cell |-> reading.machine.work_cell,
                    data_contract |-> RAW,
                    tag_name |-> TagName(reading.sensorType)])]

\* a variant of validateUMHMessage: every message is accepted
validateUMHMessage_AcceptsAll(message) == TRUE

\* UMHAdapter.validateUMHMessage(message).valid, of a message that has a
\* payload and metadata and whose timestamp_ms is a number: value must not
\* be undefined or null, timestamp_ms must not be falsy (not NaN, not 0),
\* location_path, data_contract and tag_name must not be empty, the topic
\* must not be empty and must start with umh.v1.
validateUMHMessage(message) ==
  /\ message.payload.value # <<>>
  /\ message.payload.timestamp_ms # <<>>
  /\ message.payload.timestamp_ms[1] # 0
  /\ message.metadata.location_path # <<>>
  /\ message.metadata.data_contract # <<>>
  /\ message.metadata.tag_name # <<>>
  /\ message.topic # <<>>
  /\ StartsWith(message.topic, <<"u", "m", "h", ".", "v", "1", ".">>)

-----------------------------------------------------------------------------
(* UMHClient: publish with retries and backoff                             *)

\* the retry ceiling used when options.retries is unset or 0
DefaultRetries == 3

\* options.retries: unset (<<>>) or a number (<<n>>)
RetryOptions == {<<>>} \cup {<<n>> : n \in 0 .. MaxRetries}

\* a variant of NewUMHClient: the default is used only when options.retries
\* is unset (options.retries ?? 3)
NewUMHClient_KeepsZero(retriesOption) ==
  [retries |-> IF retriesOption = <<>>
                 THEN DefaultRetries
                 ELSE retriesOption[1]]

\* this.retries = options.retries || 3
NewUMHClient(retriesOption) ==
  [retries |-> IF retriesOption = <<>> \/ retriesOption[1] = 0
                 THEN DefaultRetries
                 ELSE retriesOption[1]]

\* the causes an attempt can fail with
Causes == {"timeout", "status 500"}

\* the messages a direct caller publishes
SampleMessages ==
  {convertToUMHMessage([value |-> <<1>>,
                        machine |-> Roster["cnc-001"],
                        sensorType |-> <<"s", "p", "i", "n", "d", "l", "e", "-", "s", "p", "e", "e", "d">>,
                        timestamp |-> <<StartInstant>>]),
   convertToUMHMessage([value |-> <<1>>,
                        machine |-> Roster["cnc-006"],
                        sensorType |-> <<"p", "a", "r", "t", "s", "-", "c", "o", "u", "n", "t">>,
                        timestamp |-> <<StartInstant>>])}

\* the sink after it accepted message x (a bag: message -> count)
Deliver(bag, x) ==
  IF x \in DOMAIN bag
    THEN [bag EXCEPT ![x] = @ + 1]
    ELSE [y \in DOMAIN bag \cup {x} |-> IF y = x THEN 1 ELSE bag[y]]

RECURSIVE SumOver(_, _)
SumOver(f, S) ==
  IF S = {} THEN 0
  ELSE LET x == CHOOSE y \in S : TRUE IN f[x] + SumOver(f, S \ {x})

\* the number of messages the sink accepted
Delivered(bag) == SumOver(bag, DOMAIN bag)

Min(a, b) == IF a <= b THEN a ELSE b

\* a variant of BackoffDelay: the cap is missing
BackoffDelay_NoCap(attempt) == 1000 * 2 ^ (attempt - 1)

\* Math.min(1000 * Math.pow(2, attempt - 1), 5000)
BackoffDelay(attempt) == Min(1000 * 2 ^ (attempt - 1), 5000)

\* publish(message) up to its first await: the loop is entered with
\* attempt = 1 and the POST is sent, or the loop is skipped and the call
\* throws.  outcomes and delays record what the call did.
PublishEnter(client, message) ==
  [pc |-> IF 1 <= client.retries THEN "post" ELSE "thrown",
   message |-> message,
   attempt |-> 1,
   lastError |-> <<>>,
   outcomes |-> <<>>,
   delays |-> <<>>]

\* a variant of PublishPostOk: the return is missing and the loop goes on
PublishPostOk_NoReturn(client, call) ==
  IF call.attempt < client.retries
    THEN [call EXCEPT !.pc = "post",
                      !.attempt = @ + 1,
                      !.outcomes = Append(@, TRUE)]
    ELSE [call EXCEPT !.pc = "returned",
                      !.outcomes = Append(@, TRUE)]

\* the POST of this attempt succeeded: return
PublishPostOk(client, call) ==
  [call EXCEPT !.pc = "returned",
               !.outcomes = Append(@, TRUE)]

\* the POST of this attempt failed with `cause`: wait before the next
\* attempt, or leave the loop and throw after the last one
PublishPostFailed(client, call, cause) ==
  IF call.attempt < client.retries
    THEN [call EXCEPT !.pc = "backoff",
                      !.lastError = <<cause>>,
                      !.outcomes = Append(@, FALSE),
                      !.delays = Append(@, BackoffDelay(call.attempt))]
    ELSE [call EXCEPT !.pc = "thrown",
                      !.lastError = <<cause>>,
                      !.outcomes = Append(@, FALSE)]

\* the error publish throws after its last attempt: its message is made of
\* the retry ceiling and of the message of lastError
PublishError(client, call) ==
  [cause |-> call.lastError,
   text |-> "Failed to publish to UMH-Core after attempts",
   attempts |-> client.retries]

\* the backoff timer fired: attempt++, and the POST is sent again
PublishBackoffElapsed(call) ==
  [call EXCEPT !.pc = "post", !.attempt = @ + 1]

-----------------------------------------------------------------------------
(* The client alone: a caller publishes messages one after the other       *)

InitPub ==
  /\ now = StartInstant
  /\ CNC_MACHINES = <<>>
  /\ generators = <<>>
  /\ \E o \in RetryOptions : umhClient = <<NewUMHClient(o)>>
  /\ pubCall = [pc |-> "idle"]
  /\ sink = <<>>
  /\ mqttClient = <<>>
  /\ NoCall
  /\ NoManager

\* umhClient.publish(message)
PubPublish ==
  /\ pubCall.pc \in {"idle", "returned", "thrown"}
  /\ Delivered(sink) < MaxDelivered
  /\ \E message \in SampleMessages : pubCall' = PublishEnter(umhClient[1], message)
  /\ UNCHANGED <<umhClient, sink, mqttClient>>
  /\ UNCHANGED engineVars
  /\ UNCHANGED callVars
  /\ UNCHANGED managerVars

\* httpClient.post resolves
PubPostOk ==
  /\ pubCall.pc = "post"
  /\ pubCall' = PublishPostOk(umhClient[1], pubCall)
  /\ sink' = Deliver(sink, pubCall.message)
  /\ UNCHANGED <<umhClient, mqttClient>>
  /\ UNCHANGED engineVars
  /\ UNCHANGED callVars
  /\ UNCHANGED managerVars

\* httpClient.post rejects
PubPostFailed ==
  /\ pubCall.pc = "post"
  /\ \E cause \in Causes : pubCall' = PublishPostFailed(umhClient[1], pubCall, cause)
  /\ UNCHANGED <<umhClient, sink, mqttClient>>
  /\ UNCHANGED engineVars
  /\ UNCHANGED callVars
  /\ UNCHANGED managerVars

\* the setTimeout of the backoff resolves
PubBackoffElapsed ==
  /\ pubCall.pc = "backoff"
  /\ pubCall' = PublishBackoffElapsed(pubCall)
  /\ UNCHANGED <<umhClient, sink, mqttClient>>
  /\ UNCHANGED engineVars
  /\ UNCHANGED callVars
  /\ UNCHANGED managerVars

NextPub ==
  \/ PubPublish
  \/ PubPostOk
  \/ PubPostFailed
  \/ PubBackoffElapsed

SpecPub == InitPub /\ [][NextPub]_vars

-----------------------------------------------------------------------------
(* CNCDataGeneratorFactory and UMHSimulationManager: the scheduler         *)

\* the keys of the readings generateSensorReadings pushes, in order
SensorTypes(machine) ==
  <<<<"s", "p", "i", "n", "d", "l", "e", "-", "s", "p", "e", "e", "d">>,
    <<"s", "p", "i", "n", "d", "l", "e", "-", "l", "o", "a", "d">>>>
  \o SubSeq(<<<<"p", "o", "s", "i", "t", "i", "o", "n", "-", "x">>,
            <<"p", "o", "s", "i", "t", "i", "o", "n", "-", "y">>,
            <<"p", "o", "s", "i", "t", "i", "o", "n", "-", "z">>,
            <<"p", "o", "s", "i", "t", "i", "o", "n", "-", "a">>,
            <<"p", "o", "s", "i", "t", "i", "o", "n", "-", "b">>,
            <<"p", "o", "s", "i", "t", "i", "o", "n", "-", "c">>>>, 1, machine.axes)
  \o <<<<"f", "e", "e", "d", "r", "a", "t", "e">>,
       <<"v", "i", "b", "r", "a", "t", "i", "o", "n">>,
       <<"t", "e", "m", "p", "e", "r", "a", "t", "u", "r", "e">>,
       <<"c", "u", "r", "r", "e", "n", "t", "-", "t", "o", "o", "l">>>>
  \o (IF machine.coolant_system
        THEN <<<<"c", "o", "o", "l", "a", "n", "t", "-", "p", "r", "e", "s", "s", "u", "r", "e">>,
               <<"c", "o", "o", "l", "a", "n", "t", "-", "f", "l", "o", "w">>>>
        ELSE <<>>)
  \o <<<<"o", "p", "e", "r", "a", "t", "i", "o", "n", "a", "l">>,
       <<"c", "y", "c", "l", "e", "-", "p", "h", "a", "s", "e">>,
       <<"p", "a", "r", "t", "s", "-", "c", "o", "u", "n", "t">>,
       <<"e", "f", "f", "i", "c", "i", "e", "n", "c", "y">>>>

\* the readings of machine m that are followed
Readings(m) ==
  SubSeq(SensorTypes(CNC_MACHINES[m]), 1,
         Min(MaxReadings, Len(SensorTypes(CNC_MACHINES[m]))))

\* a variant of IsOperational: offline machines are not skipped
\* (generateAllReadings)
IsOperational_All(m) == m \in DOMAIN CNC_MACHINES

\* machine && machine.operational_status !== 'offline'
IsOperational(m) ==
  /\ m \in DOMAIN CNC_MACHINES
  /\ CNC_MACHINES[m].operational_status # "offline"

\* the keys of the map generateOperationalReadings returns, in order
OperationalIds ==
  SelectSeq(MachineIds, LAMBDA m : m \in DOMAIN generators /\ IsOperational(m))

\* the draws followed in the scheduler: the least and the greatest
SchedulerDraws == {0, RandDen - 1}

\* the engines a tick at time t can leave behind: every operational engine
\* has run generateSensorReadings, with some draws
RECURSIVE TickedGenerators(_, _, _)
TickedGenerators(gens, ids, t) ==
  IF ids = <<>> THEN {gens}
  ELSE LET m == Head(ids) IN
       UNION {TickedGenerators([gens EXCEPT ![m] = g], Tail(ids), t) :
                g \in {generateSensorReadings(gens[m], t, kb, k) :
                         kb \in SchedulerDraws, k \in SchedulerDraws}}

\* the reading `sensorType` that the engine of machine m generates at time
\* t, with the configuration the scheduler finds for m (1 stands for the
\* value of a generated reading, which is not followed)
GeneratedReading(m, sensorType, t) ==
  [value |-> <<1>>, machine |-> CNC_MACHINES[m],
   sensorType |-> sensorType, timestamp |-> <<t>>]

\* the readings of the machines `ids`, in the order of the map
RECURSIVE GeneratedReadings(_, _)
GeneratedReadings(ids, t) ==
  IF ids = <<>> THEN <<>>
  ELSE [i \in 1 .. Len(Readings(Head(ids))) |->
          GeneratedReading(Head(ids), Readings(Head(ids))[i], t)]
       \o GeneratedReadings(Tail(ids), t)

\* umhMessages: the converted readings that pass validation, in order
CollectMessages(readings) ==
  SelectSeq([i \in DOMAIN readings |-> convertToUMHMessage(readings[i])],
            validateUMHMessage)

\* umhMessages of a tick at time t over the machines `ids`
UMHMessages(ids, t) == CollectMessages(GeneratedReadings(ids, t))

\* a variant of addError: the list is not cut
addError_NoCap(errors, error) == Append(errors, error)

\* this.metrics.errors after addError(error)
addError(errors, error) ==
  IF Len(errors) + 1 > 10
    THEN SubSeq(Append(errors, error), Len(errors) - 8, Len(errors) + 1)
    ELSE Append(errors, error)

(* The arithmetic of updateMetrics is done in IEEE 754 doubles.  A natural  *)
(* number below 2^60 is held as three limbs <<a2, a1, a0>> in base 2^20; a  *)
(* positive double is <<m, e>>, of value m * 2^e with 2^52 <= m < 2^53.     *)

Limb == 2^20

BigOf(n) == <<0, n \div Limb, n % Limb>>

Two52 == <<2^12, 0, 0>>

Two53 == <<2^13, 0, 0>>

\* 2 * a + bit
BigTwicePlus(a, bit) ==
  LET l0 == 2 * a[3] + bit
      l1 == 2 * a[2] + l0 \div Limb
      l2 == 2 * a[1] + l1 \div Limb
  IN <<l2, l1 % Limb, l0 % Limb>>

\* a \div 2
BigHalf(a) ==
  <<a[1] \div 2,
    (a[2] + (a[1] % 2) * Limb) \div 2,
    (a[3] + (a[2] % 2) * Limb) \div 2>>

BigOdd(a) == a[3] % 2 = 1

\* a >= b
BigGeq(a, b) ==
  \/ a[1] > b[1]
  \/ a[1] = b[1] /\ a[2] > b[2]
  \/ a[1] = b[1] /\ a[2] = b[2] /\ a[3] >= b[3]

\* a - b, for a >= b
BigMinus(a, b) ==
  LET borrow0 == IF a[3] < b[3] THEN 1 ELSE 0
      borrow1 == IF a[2] - borrow0 < b[2] THEN 1 ELSE 0
  IN <<a[1] - b[1] - borrow1,
       a[2] - borrow0 - b[2] + borrow1 * Limb,
       a[3] - b[3] + borrow0 * Limb>>

\* a * n, for a < 2^53 and n <= 100
BigTimes(a, n) ==
  LET l0 == a[3] * n
      l1 == a[2] * n + l0 \div Limb
      l2 == a[1] * n + l1 \div Limb
  IN <<l2, l1 % Limb, l0 % Limb>>

\* a + 1
BigPlusOne(a) ==
  LET l0 == a[3] + 1
      l1 == a[2] + l0 \div Limb
      l2 == a[1] + l1 \div Limb
  IN <<l2, l1 % Limb, l0 % Limb>>

\* the double of mantissa m + 1, for a mantissa m that is rounded up
RoundedUp(m, e) ==
  IF BigPlusOne(m) = Two53 THEN <<Two52, e + 1>> ELSE <<BigPlusOne(m), e>>

\* one more bit of the quotient: s = <<q, r, e>> stands for
\* (q + r / d) * 2^e with 0 <= r < d; nothing is done once q has 53 bits
DivisionStep(s, d) ==
  LET r2 == BigTwicePlus(s[2], 0) IN
  IF BigGeq(s[1], Two52) THEN s
  ELSE IF BigGeq(r2, d)
         THEN <<BigTwicePlus(s[1], 1), BigMinus(r2, d), s[3] - 1>>
         ELSE <<BigTwicePlus(s[1], 0), r2, s[3] - 1>>

\* the steps below bind each intermediate result to a variable, so that it
\* is evaluated once
DivisionStep4(s, d) ==
  CHOOSE s4 \in {DivisionStep(s3, d) : s3 \in
                   {DivisionStep(s2, d) : s2 \in
                      {DivisionStep(s1, d) : s1 \in {DivisionStep(s, d)}}}} : TRUE

DivisionStep16(s, d) ==
  CHOOSE s16 \in {DivisionStep4(s12, d) : s12 \in
                    {DivisionStep4(s8, d) : s8 \in
                       {DivisionStep4(s4, d) : s4 \in {DivisionStep4(s, d)}}}} : TRUE

\* the quotient carried to 53 bits
RECURSIVE LongDivision(_, _)
LongDivision(s, d) ==
  CHOOSE q \in {IF BigGeq(v[1], Two52) THEN v
                  ELSE LongDivision(DivisionStep16(v, d), d) : v \in {s}} : TRUE

\* the double nearest to (q + r / d) * 2^e, ties to the even mantissa,
\* for 0 <= r < d < 2^53, q < 2^53 and q + r > 0
RoundedQuotient(q, r, d, e) ==
  CHOOSE x \in
    {LET r2 == BigTwicePlus(s[2], 0)
     IN IF BigGeq(r2, d) /\ (r2 # d \/ BigOdd(s[1]))
          THEN RoundedUp(s[1], s[3])
          ELSE <<s[1], s[3]>> : s \in {LongDivision(<<q, r, e>>, d)}} : TRUE

\* the double nearest to w * 2^e, for w < 2^60; half and sticky tell about
\* the bits already dropped
RECURSIVE Narrowed(_, _, _, _)
Narrowed(w, e, half, sticky) ==
  CHOOSE x \in
    {IF BigGeq(v, Two53)
       THEN Narrowed(BigHalf(v), e + 1, BigOdd(v), sticky \/ half)
       ELSE IF half /\ (sticky \/ BigOdd(v))
              THEN RoundedUp(v, e)
              ELSE <<v, e>> : v \in {w}} : TRUE

\* a / b in doubles, for integers a > 0 and b > 0
DoubleOfQuotient(a, b) == RoundedQuotient(BigOf(a \div b), BigOf(a % b), BigOf(b), 0)

\* a / x in doubles, for an integer a > 0 and a double x
DoubleDividedBy(a, x) ==
  CHOOSE y \in {RoundedQuotient(BigOf(0), BigOf(a), v[1], 0 - v[2]) : v \in {x}} : TRUE

\* x * n in doubles, for a double x and an integer 0 < n <= 100
DoubleTimes(x, n) ==
  CHOOSE y \in {Narrowed(BigTimes(v[1], n), v[2], FALSE, FALSE) : v \in {x}} : TRUE

\* a \div 2^n
RECURSIVE BigShifted(_, _)
BigShifted(a, n) ==
  CHOOSE b \in
    {IF n <= 0 \/ v = <<0, 0, 0>> THEN v
     ELSE IF n >= 20 THEN BigShifted(<<0, v[1], v[2]>>, n - 20)
     ELSE BigShifted(BigHalf(v), n - 1) : v \in {a}} : TRUE

\* Math.round(x) for a double x < 2^30: the integer nearest to x, a half
\* rounded up
MathRound(x) ==
  CHOOSE n \in
    {(twice[2] * Limb + twice[3] + 1) \div 2 :
       twice \in {BigShifted(v[1], (0 - v[2]) - 1) : v \in {x}}} : TRUE

\* Math.round((total / uptimeSeconds) * 100), the messages per second in
\* hundredths
HundredthsPerSecond(total, uptimeSeconds) ==
  IF total = 0 THEN 0
  ELSE MathRound(DoubleTimes(DoubleDividedBy(total, uptimeSeconds), 100))

\* for the uptimes (ms) and the totals that recur in the runs of the
\* scheduler: <<uptime, total, Math.round(uptimeSeconds), hundredths per
\* second>>
RecurringMetrics ==
  {<<e, n, MathRound(DoubleOfQuotient(e, 1000)),
     HundredthsPerSecond(n, DoubleOfQuotient(e, 1000))>> :
     e \in {i * StartInstant : i \in 1 .. MaxSchedulerSteps},
     n \in 0 .. 2 * MaxTicks * MaxReadings * Len(MachineIds)}

\* this.metrics after updateMetrics() of a scheduler started at `start`,
\* at time t >= start; messagesPerSecond is kept in hundredths.  What
\* recurs is looked up.
updateMetricsSince(m, start, t) ==
  IF t - start > 0
    THEN IF \E r \in RecurringMetrics : r[1] = t - start /\ r[2] = m.totalMessagesPublished
           THEN LET known == CHOOSE r \in RecurringMetrics :
                               r[1] = t - start /\ r[2] = m.totalMessagesPublished
                IN [m EXCEPT !.uptime = known[3], !.messagesPerSecond = known[4]]
           ELSE LET uptimeSeconds == DoubleOfQuotient(t - start, 1000) IN
                [m EXCEPT !.uptime = MathRound(uptimeSeconds),
                          !.messagesPerSecond =
                             HundredthsPerSecond(m.totalMessagesPublished, uptimeSeconds)]
    ELSE [m EXCEPT !.uptime = 0, !.messagesPerSecond = 0]

\* this.metrics after updateMetrics() at time t
updateMetrics(m, t) == updateMetricsSince(m, startTime, t)

\* this.config.batchSize || 1
BatchSize == IF config.batchSize = <<>> \/ config.batchSize[1] = 0
               THEN 1 ELSE config.batchSize[1]

\* batchSize > 1 && umhMessages.length > batchSize
InBatches(messages) == BatchSize > 1 /\ Len(messages) > BatchSize

\* the error publish throws after its last attempt
DeliveryError(client, call) ==
  [cause |-> call.lastError,
   text |-> "UMH publishing error: Failed to publish to UMH-Core after attempts",
   attempts |-> client.retries]

\* the error publishBatch rethrows
BatchError(cause) ==
  [cause |-> <<cause>>, text |-> "UMH publishing error", attempts |-> 1]

\* the error connectUMH records
ConnectionError(cause) ==
  [cause |-> <<cause>>,
   text |-> "UMH-Core connection error: UMH-Core connection failed", attempts |-> 1]

\* the batch sizes a scheduler is configured with: unset or a number
BatchSizeOptions == {<<>>} \cup {<<b>> : b \in 1 .. MaxBatchSize}

\* the rejection of a request that is followed in the scheduler
SchedulerCauses == {"timeout"}

\* the instants of the clock of the scheduler
SchedulerInstants == {i * 600000 : i \in 1 .. MaxSchedulerSteps + 1}

Init ==
  /\ now = StartInstant
  /\ CNC_MACHINES = Roster
  /\ \E k \in SchedulerDraws :
       generators = [m \in DOMAIN CNC_MACHINES |-> NewGenerator(Status(m), now, k, LeastDraws)]
  /\ NoPublisher
  /\ NoCall
  /\ \E b \in BatchSizeOptions : config = [batchSize |-> b]
  /\ isRunning = FALSE
  /\ publishTimer = FALSE
  /\ timers = 0
  /\ startTime = now
  /\ metrics = NewMetrics
  /\ connecting = 0
  /\ ticks = <<>>

ClockAdvances ==
  /\ \E t \in SchedulerInstants :
       /\ t > now
       /\ now' = t
  /\ UNCHANGED <<CNC_MACHINES, generators>>
  /\ UNCHANGED callVars
  /\ UNCHANGED pubVars
  /\ UNCHANGED managerVars

\* a variant of StartRejects: the guard of start() is missing
StartRejects_Never(running) == FALSE

\* start(): if (this.isRunning) throw new Error('UMH simulation is already running')
StartRejects(running) == running

\* a variant of stop: no early return, and the timer is cancelled without
\* looking at the handle
stop_Unguarded(m) ==
  [isRunning |-> FALSE, publishTimer |-> FALSE, timers |-> m.timers - 1]

\* a variant of cleanup: the failure is swallowed and publishing starts
cleanup_StartsAnyway(m) ==
  [isRunning |-> TRUE, publishTimer |-> TRUE, timers |-> m.timers + 1]

\* stop() of the scheduler m = [isRunning, publishTimer, timers]: it returns
\* at once when m is not running; else the flag is cleared and the timer,
\* if a handle is held, is cancelled (disconnect of the HTTP client changes
\* nothing)
stop(m) ==
  IF ~m.isRunning THEN m
  ELSE [isRunning |-> FALSE,
        publishTimer |-> FALSE,
        timers |-> IF m.publishTimer THEN m.timers - 1 ELSE m.timers]

\* cleanup() of the scheduler m: the timer, if a handle is held, is
\* cancelled, and the flag is cleared
cleanup(m) ==
  [isRunning |-> FALSE,
   publishTimer |-> FALSE,
   timers |-> IF m.publishTimer THEN m.timers - 1 ELSE m.timers]

\* a snapshot is what getMetrics() returned, [object, shared, owner]:
\* object is what the caller reads in it, shared tells that its `errors` is
\* still the array metrics.errors of a scheduler refers to, and owner is
\* that scheduler (0: the one held, o: orphans[o]; 0 when it is shared with
\* none).  The snapshot after addError(error) of the scheduler `owner`:
\* push() changes the array in place, and slice(-10) gives the scheduler a
\* new array while the snapshot keeps the old one
SnapshotAfterAddErrorOf(snap, owner, error) ==
  IF snap = <<>> \/ ~snap[1].shared \/ snap[1].owner # owner
    THEN snap
    ELSE <<[owner |-> IF Len(snap[1].object.errors) + 1 <= 10 THEN owner ELSE 0,
            shared |-> Len(snap[1].object.errors) + 1 <= 10,
            object |-> [snap[1].object EXCEPT !.errors = Append(@, error)]]>>

\* the snapshot after addError(error) of the scheduler held
SnapshotAfterAddError(snap, error) == SnapshotAfterAddErrorOf(snap, 0, error)

\* the scheduler as stop() and cleanup() see it
Manager == [isRunning |-> isRunning, publishTimer |-> publishTimer, timers |-> timers]

\* a caller that awaits its calls makes the next one when no start() awaits
\* its connection and no call awaits the end of a client or the return of
\* stop()
Awaited == connecting = 0 /\ closing = <<>>

\* the sequence s without its i-th element
Without(s, i) == SubSeq(s, 1, i - 1) \o SubSeq(s, i + 1, Len(s))

\* start() up to `await this.umhClient.connect()`; a start() of a running
\* scheduler throws and changes nothing.  The connections awaited and the
\* timers armed are followed up to MaxCalls.
StartCall ==
  IF StartRejects(isRunning)
    THEN UNCHANGED vars
    ELSE /\ connecting + timers < MaxCalls
         /\ umhClient' = <<NewUMHClient(<<3>>)>>
         /\ connecting' = connecting + 1
         /\ UNCHANGED <<pubCall, sink, mqttClient>>
         /\ UNCHANGED engineVars
         /\ UNCHANGED callVars
         /\ UNCHANGED <<config, isRunning, publishTimer, timers, startTime, metrics, ticks>>

\* connect() resolved: startPublishing(), isRunning = true
StartConnected ==
  /\ connecting > 0
  /\ connecting' = connecting - 1
  /\ timers' = timers + 1
  /\ publishTimer' = TRUE
  /\ isRunning' = TRUE
  /\ startTime' = now
  /\ UNCHANGED pubVars
  /\ UNCHANGED engineVars
  /\ UNCHANGED callVars
  /\ UNCHANGED <<config, metrics, ticks>>

\* connect() rejected: addError, cleanup(), and start() throws
StartConnectFailed ==
  /\ connecting > 0
  /\ Len(metrics.errors) < MaxErrors
  /\ connecting' = connecting - 1
  /\ \E cause \in SchedulerCauses :
       /\ metrics' = [metrics EXCEPT !.errors = addError(@, ConnectionError(cause))]
       /\ snapshot' = SnapshotAfterAddError(snapshot, ConnectionError(cause))
  /\ timers' = cleanup(Manager).timers
  /\ publishTimer' = cleanup(Manager).publishTimer
  /\ isRunning' = cleanup(Manager).isRunning
  /\ UNCHANGED pubVars
  /\ UNCHANGED engineVars
  /\ UNCHANGED <<lastReadings, adapterCall, lifecycle, processVars>>
  /\ UNCHANGED <<config, startTime, ticks>>

\* stop(); a stop() of a scheduler that is not running returns at once
Stop ==
  /\ isRunning' = stop(Manager).isRunning
  /\ timers' = stop(Manager).timers
  /\ publishTimer' = stop(Manager).publishTimer
  /\ UNCHANGED pubVars
  /\ UNCHANGED engineVars
  /\ UNCHANGED callVars
  /\ UNCHANGED <<config, startTime, metrics, connecting, ticks>>

\* the scheduler the variables describe, as an object of its own
Held ==
  [generators |-> generators, isRunning |-> isRunning, publishTimer |-> publishTimer,
   timers |-> timers, startTime |-> startTime, metrics |-> metrics,
   connecting |-> connecting, ticks |-> ticks, listening |-> listening]

\* the scheduler s can still act: a start() awaits its connection, an
\* interval timer is armed, or a publishSensorData() has not returned
Alive(s) ==
  \/ s.connecting > 0
  \/ s.timers > 0
  \/ \E id \in DOMAIN s.ticks : s.ticks[id].pc # "done"

\* the interval timers armed by the replaced schedulers os
RECURSIVE OrphanTimers(_)
OrphanTimers(os) ==
  IF os = <<>> THEN 0 ELSE Head(os).timers + OrphanTimers(Tail(os))

\* the snapshot once the scheduler held has been replaced: a snapshot
\* taken of it goes on sharing its `errors` with it when it is kept, as
\* the last of the replaced schedulers; a scheduler that is not kept
\* changes no more
SnapshotAfterReplaced(snap, kept) ==
  IF snap = <<>> \/ ~snap[1].shared \/ snap[1].owner # 0
    THEN snap
    ELSE IF kept
      THEN <<[snap[1] EXCEPT !.owner = Len(orphans) + 1]>>
      ELSE <<[snap[1] EXCEPT !.shared = FALSE]>>

\* new UMHSimulationManager(config) takes the place of the scheduler held,
\* and its start() runs up to `await this.umhClient.connect()`: new engines,
\* startTime, metrics and client.  The scheduler replaced goes on for itself
\* as long as it can act, and a snapshot a caller holds shares its `errors`
\* with that scheduler, not with the one held.  The configuration passed is
\* the one the scheduler was built with.
Replaced ==
  /\ instance' = TRUE
  /\ orphans' = IF Alive(Held) THEN Append(orphans, Held) ELSE orphans
  /\ \E k \in SchedulerDraws :
       generators' = [m \in DOMAIN CNC_MACHINES |->
                        NewGenerator(Status(m), now, k, LeastDraws)]
  /\ startTime' = now
  /\ metrics' = NewMetrics
  /\ isRunning' = FALSE
  /\ publishTimer' = FALSE
  /\ timers' = 0
  /\ ticks' = <<>>
  /\ umhClient' = <<NewUMHClient(<<3>>)>>
  /\ connecting' = 1
  /\ snapshot' = SnapshotAfterReplaced(snapshot, Alive(Held))
  /\ UNCHANGED <<now, CNC_MACHINES, pubCall, sink, mqttClient, config>>
  /\ UNCHANGED <<lastReadings, adapterCall, closing, listening>>

\* static startSimulation(config): it throws when the instance held is
\* running; else a new scheduler takes its place and is started.  The call
\* is recorded, with the number of start() calls that were awaiting
\* connect() when it was made; MaxCalls calls are followed.
StartSimulation ==
  /\ Len(lifecycle) < MaxCalls
  /\ lifecycle' = Append(lifecycle, [op |-> "startSimulation", awaiting |-> connecting,
                                      rejected |-> instance /\ StartRejects(isRunning)])
  /\ IF instance /\ StartRejects(isRunning)
       THEN /\ UNCHANGED <<engineVars, pubVars, managerVars>>
            /\ UNCHANGED <<lastReadings, adapterCall, snapshot, processVars>>
       ELSE Replaced

\* static stopSimulation() up to `await UMHSimulationManager.instance.stop()`:
\* it returns at once when the static field is null; else stop() of the
\* instance held runs up to its own await, and the static field stays as it
\* is until stop() has returned
StopSimulation ==
  /\ Len(lifecycle) < MaxCalls
  /\ lifecycle' = Append(lifecycle, [op |-> "stopSimulation", awaiting |-> connecting,
                                      rejected |-> FALSE])
  /\ IF ~instance
       THEN UNCHANGED <<isRunning, timers, publishTimer, closing>>
       ELSE /\ closing' = Append(closing, [call |-> "stopSimulation"])
            /\ isRunning' = stop(Manager).isRunning
            /\ timers' = stop(Manager).timers
            /\ publishTimer' = stop(Manager).publishTimer
  /\ UNCHANGED pubVars
  /\ UNCHANGED engineVars
  /\ UNCHANGED <<lastReadings, adapterCall, snapshot, instance, orphans, listening>>
  /\ UNCHANGED <<config, startTime, metrics, connecting, ticks>>

\* stop() has returned to the i-th call, a stopSimulation(): the static
\* field is set to null, whichever scheduler it holds by then
StopSimulationResumes(i) ==
  /\ closing[i].call = "stopSimulation"
  /\ closing' = Without(closing, i)
  /\ instance' = FALSE
  /\ UNCHANGED <<engineVars, pubVars, managerVars>>
  /\ UNCHANGED <<lastReadings, adapterCall, lifecycle, snapshot, orphans, listening>>

\* the tick of a publishSensorData() that returned without publishing
SkippedTick(messages, machines) ==
  [i |-> 0, pc |-> "done", batchSize |-> BatchSize,
   call |-> [pc |-> "idle"], messages |-> messages, machines |-> machines,
   result |-> "completed"]

\* a variant of NewTick: once an error is recorded, ticks publish nothing
NewTick_QuietAfterError(messages, machines) ==
  IF metrics.errors # <<>>
    THEN SkippedTick(messages, machines)
    ELSE [SkippedTick(messages, machines) EXCEPT
            !.pc = "publish", !.result = "pending", !.i = 1,
            !.call = PublishEnter(umhClient[1], messages[1])]

\* a variant of NewTick: a tick that finds an earlier tick in flight
\* publishes nothing
NewTick_Coalesced(messages, machines) ==
  IF \E id \in DOMAIN ticks : ticks[id].pc # "done"
    THEN SkippedTick(messages, machines)
    ELSE [SkippedTick(messages, machines) EXCEPT
            !.pc = "publish", !.result = "pending", !.i = 1,
            !.call = PublishEnter(umhClient[1], messages[1])]

\* the tick that publishSensorData() leaves at its first await (or at its
\* end, when there is nothing to publish)
NewTick(messages, machines) ==
  [i |-> IF messages = <<>> THEN 0 ELSE 1,
   pc |-> IF messages = <<>> THEN "done"
          ELSE IF InBatches(messages) THEN "batch" ELSE "publish",
   batchSize |-> BatchSize,
   call |-> IF messages = <<>> \/ InBatches(messages)
              THEN [pc |-> "idle"]
              ELSE PublishEnter(umhClient[1], messages[1]),
   messages |-> messages,
   machines |-> machines,
   result |-> IF messages = <<>> THEN "completed" ELSE "pending"]

\* the interval timer fires: publishSensorData() up to its first await,
\* with `messages` the messages collected from the readings; at most
\* maxTicks ticks are followed
TimerFiresWith(maxTicks, messages) ==
  /\ timers > 0
  /\ Len(ticks) < maxTicks
  /\ IF umhClient = <<>> \/ ~isRunning
       THEN UNCHANGED <<generators, ticks, metrics>>
       ELSE /\ generators' \in TickedGenerators(generators, OperationalIds, now)
            /\ ticks' = Append(ticks, NewTick(messages, Len(OperationalIds)))
            /\ metrics' = IF messages = <<>>
                            THEN updateMetrics(
                                   [metrics EXCEPT !.activeMachines = Len(OperationalIds)],
                                   now)
                            ELSE metrics
  /\ UNCHANGED <<now, CNC_MACHINES>>
  /\ UNCHANGED callVars
  /\ UNCHANGED pubVars
  /\ UNCHANGED <<config, isRunning, publishTimer, timers, startTime, connecting>>

\* the readings are those of the operational engines
TimerFiresUpTo(maxTicks) ==
  TimerFiresWith(maxTicks, UMHMessages(OperationalIds, now))

TimerFires == TimerFiresUpTo(MaxTicks)

\* the tick after the publish of message i returned, or the batch at i was
\* accepted: the next send is made, or the tick ends
TickAfterSend(tick, next) ==
  IF next <= Len(tick.messages)
    THEN [tick EXCEPT !.i = next,
                      !.call = IF tick.pc = "publish"
                                 THEN PublishEnter(umhClient[1], tick.messages[next])
                                 ELSE @]
    ELSE [tick EXCEPT !.pc = "done", !.result = "completed"]

\* a variant of MetricsAfterSend: a tick counts its messages on its own and
\* stores its count when its loop has ended
MetricsAfterSend_OwnCount(m, tick, next, t) ==
  IF next <= Len(tick.messages)
    THEN m
    ELSE updateMetrics([m EXCEPT !.activeMachines = tick.machines,
                                 !.totalMessagesPublished = Len(tick.messages)], t)

\* the metrics once the loop of a tick has ended, or as they are
MetricsAfterSend(m, tick, next, t) ==
  IF next <= Len(tick.messages)
    THEN m
    ELSE updateMetrics([m EXCEPT !.activeMachines = tick.machines], t)

\* the tick after publish (or publishBatch) threw: the catch of
\* publishSensorData ends it
TickAfterThrow(tick, call) ==
  [tick EXCEPT !.pc = "done", !.result = "failed", !.call = call]

\* httpClient.post of the publish of a tick resolves
TickPostOk(id) ==
  /\ ticks[id].pc = "publish"
  /\ ticks[id].call.pc = "post"
  /\ sink' = Deliver(sink, ticks[id].call.message)
  /\ ticks' = [ticks EXCEPT ![id] =
                 TickAfterSend([@ EXCEPT !.call = PublishPostOk(umhClient[1], @)],
                               ticks[id].i + 1)]
  /\ metrics' = MetricsAfterSend(
                  [metrics EXCEPT !.totalMessagesPublished = @ + 1],
                  ticks[id], ticks[id].i + 1, now)
  /\ UNCHANGED <<umhClient, pubCall, mqttClient>>
  /\ UNCHANGED engineVars
  /\ UNCHANGED callVars
  /\ UNCHANGED <<config, isRunning, publishTimer, timers, startTime, connecting>>

\* httpClient.post of the publish of a tick rejects
TickPostFailed(id) ==
  /\ ticks[id].pc = "publish"
  /\ ticks[id].call.pc = "post"
  /\ \E cause \in SchedulerCauses :
       LET call == PublishPostFailed(umhClient[1], ticks[id].call, cause) IN
       IF call.pc = "thrown"
         THEN /\ ticks' = [ticks EXCEPT ![id] = TickAfterThrow(@, call)]
              /\ metrics' = [metrics EXCEPT
                               !.errors = addError(@, DeliveryError(umhClient[1], call))]
              /\ snapshot' = SnapshotAfterAddError(snapshot,
                                                    DeliveryError(umhClient[1], call))
         ELSE /\ ticks' = [ticks EXCEPT ![id].call = call]
              /\ UNCHANGED <<metrics, snapshot>>
  /\ UNCHANGED pubVars
  /\ UNCHANGED engineVars
  /\ UNCHANGED <<lastReadings, adapterCall, lifecycle, processVars>>
  /\ UNCHANGED <<config, isRunning, publishTimer, timers, startTime, connecting>>

\* the backoff timer of the publish of a tick fires
TickBackoffElapsed(id) ==
  /\ ticks[id].pc = "publish"
  /\ ticks[id].call.pc = "backoff"
  /\ ticks' = [ticks EXCEPT ![id].call = PublishBackoffElapsed(@)]
  /\ UNCHANGED pubVars
  /\ UNCHANGED engineVars
  /\ UNCHANGED callVars
  /\ UNCHANGED <<config, isRunning, publishTimer, timers, startTime, metrics, connecting>>

\* the messages of the batch of a tick that starts at i
Batch(tick) ==
  SubSeq(tick.messages, tick.i, Min(tick.i + tick.batchSize - 1, Len(tick.messages)))

RECURSIVE DeliverAll(_, _)
DeliverAll(bag, messages) ==
  IF messages = <<>> THEN bag
  ELSE DeliverAll(Deliver(bag, Head(messages)), Tail(messages))

\* httpClient.post of the publishBatch of a tick resolves
TickBatchOk(id) ==
  /\ ticks[id].pc = "batch"
  /\ sink' = DeliverAll(sink, Batch(ticks[id]))
  /\ ticks' = [ticks EXCEPT ![id] = TickAfterSend(@, ticks[id].i + ticks[id].batchSize)]
  /\ metrics' = MetricsAfterSend(
                  [metrics EXCEPT !.batchesSent = @ + 1,
                                  !.totalMessagesPublished = @ + Len(Batch(ticks[id]))],
                  ticks[id], ticks[id].i + ticks[id].batchSize, now)
  /\ UNCHANGED <<umhClient, pubCall, mqttClient>>
  /\ UNCHANGED engineVars
  /\ UNCHANGED callVars
  /\ UNCHANGED <<config, isRunning, publishTimer, timers, startTime, connecting>>

\* httpClient.post of the publishBatch of a tick rejects: publishBatch
\* rethrows
TickBatchFailed(id) ==
  /\ ticks[id].pc = "batch"
  /\ \E cause \in SchedulerCauses :
       /\ ticks' = [ticks EXCEPT ![id] = TickAfterThrow(@, ticks[id].call)]
       /\ metrics' = [metrics EXCEPT !.errors = addError(@, BatchError(cause))]
       /\ snapshot' = SnapshotAfterAddError(snapshot, BatchError(cause))
  /\ UNCHANGED pubVars
  /\ UNCHANGED engineVars
  /\ UNCHANGED <<lastReadings, adapterCall, lifecycle, processVars>>
  /\ UNCHANGED <<config, isRunning, publishTimer, timers, startTime, connecting>>

\* what a step of a replaced scheduler leaves alone, the messages delivered
\* and the snapshot apart
exceptOrphanErrors ==
  <<now, CNC_MACHINES, generators, umhClient, pubCall, mqttClient, managerVars,
    lastReadings, adapterCall, lifecycle, instance, closing, listening>>

\* what a step of a replaced scheduler that records no error leaves alone,
\* the messages delivered apart
exceptOrphans == <<exceptOrphanErrors, snapshot>>

\* connect() of the replaced scheduler o resolved: startPublishing(),
\* isRunning = true
OrphanConnected(o) ==
  /\ orphans[o].connecting > 0
  /\ orphans' = [orphans EXCEPT ![o] =
                   [@ EXCEPT !.connecting = @ - 1,
                             !.timers = @ + 1,
                             !.publishTimer = TRUE,
                             !.isRunning = TRUE,
                             !.startTime = now]]
  /\ UNCHANGED <<exceptOrphans, sink>>

\* connect() of the replaced scheduler o rejected: addError, cleanup()
OrphanConnectFailed(o) ==
  /\ orphans[o].connecting > 0
  /\ Len(orphans[o].metrics.errors) < MaxErrors
  /\ \E cause \in SchedulerCauses :
       /\ orphans' = [orphans EXCEPT ![o] =
                        [@ EXCEPT !.connecting = @ - 1,
                                  !.metrics.errors = addError(@, ConnectionError(cause)),
                                  !.timers = cleanup(orphans[o]).timers,
                                  !.publishTimer = cleanup(orphans[o]).publishTimer,
                                  !.isRunning = cleanup(orphans[o]).isRunning]]
       /\ snapshot' = SnapshotAfterAddErrorOf(snapshot, o, ConnectionError(cause))
  /\ UNCHANGED <<exceptOrphanErrors, sink>>

\* the interval timer of the replaced scheduler o fires: publishSensorData()
\* up to its first await.  Every scheduler is built with the same machines
\* and its client with the same options as the one held.
OrphanTimerFires(o) ==
  /\ orphans[o].timers > 0
  /\ Len(orphans[o].ticks) < MaxTicks
  /\ IF ~orphans[o].isRunning
       THEN UNCHANGED orphans
       ELSE LET messages == UMHMessages(OperationalIds, now) IN
            \E gens \in TickedGenerators(orphans[o].generators, OperationalIds, now) :
              orphans' = [orphans EXCEPT ![o] =
                [@ EXCEPT !.generators = gens,
                          !.ticks = Append(@, NewTick(messages, Len(OperationalIds))),
                          !.metrics = IF messages = <<>>
                                        THEN updateMetricsSince(
                                               [@ EXCEPT !.activeMachines = Len(OperationalIds)],
                                               orphans[o].startTime, now)
                                        ELSE @]]
  /\ UNCHANGED <<exceptOrphans, sink>>

\* the metrics of a replaced scheduler once the loop of a tick has ended, or
\* as they are
OrphanMetricsAfterSend(m, start, tick, next, t) ==
  IF next <= Len(tick.messages)
    THEN m
    ELSE updateMetricsSince([m EXCEPT !.activeMachines = tick.machines], start, t)

\* httpClient.post of the publish of a tick of the replaced scheduler o
\* resolves
OrphanTickPostOk(o, id) ==
  LET tick == orphans[o].ticks[id] IN
  /\ tick.pc = "publish"
  /\ tick.call.pc = "post"
  /\ sink' = Deliver(sink, tick.call.message)
  /\ orphans' = [orphans EXCEPT ![o] =
       [@ EXCEPT !.ticks[id] =
                   TickAfterSend([@ EXCEPT !.call = PublishPostOk(umhClient[1], @)],
                                 tick.i + 1),
                 !.metrics = OrphanMetricsAfterSend(
                               [@ EXCEPT !.totalMessagesPublished = @ + 1],
                               orphans[o].startTime, tick, tick.i + 1, now)]]
  /\ UNCHANGED exceptOrphans

\* httpClient.post of the publish of a tick of the replaced scheduler o
\* rejects
OrphanTickPostFailed(o, id) ==
  LET tick == orphans[o].ticks[id] IN
  /\ tick.pc = "publish"
  /\ tick.call.pc = "post"
  /\ \E cause \in SchedulerCauses :
       LET call == PublishPostFailed(umhClient[1], tick.call, cause) IN
       /\ orphans' = [orphans EXCEPT ![o] =
            IF call.pc = "thrown"
              THEN [@ EXCEPT !.ticks[id] = TickAfterThrow(@, call),
                             !.metrics.errors = addError(@, DeliveryError(umhClient[1], call))]
              ELSE [@ EXCEPT !.ticks[id].call = call]]
       /\ snapshot' = IF call.pc = "thrown"
                        THEN SnapshotAfterAddErrorOf(snapshot, o,
                                                     DeliveryError(umhClient[1], call))
                        ELSE snapshot
  /\ UNCHANGED <<exceptOrphanErrors, sink>>

\* the backoff timer of the publish of a tick of the replaced scheduler o
\* fires
OrphanTickBackoffElapsed(o, id) ==
  /\ orphans[o].ticks[id].pc = "publish"
  /\ orphans[o].ticks[id].call.pc = "backoff"
  /\ orphans' = [orphans EXCEPT ![o].ticks[id].call = PublishBackoffElapsed(@)]
  /\ UNCHANGED <<exceptOrphans, sink>>

\* httpClient.post of the publishBatch of a tick of the replaced scheduler
\* o resolves
OrphanTickBatchOk(o, id) ==
  LET tick == orphans[o].ticks[id] IN
  /\ tick.pc = "batch"
  /\ sink' = DeliverAll(sink, Batch(tick))
  /\ orphans' = [orphans EXCEPT ![o] =
       [@ EXCEPT !.ticks[id] = TickAfterSend(@, tick.i + tick.batchSize),
                 !.metrics = OrphanMetricsAfterSend(
                               [@ EXCEPT !.batchesSent = @ + 1,
                                         !.totalMessagesPublished = @ + Len(Batch(tick))],
                               orphans[o].startTime, tick, tick.i + tick.batchSize, now)]]
  /\ UNCHANGED exceptOrphans

\* httpClient.post of the publishBatch of a tick of the replaced scheduler
\* o rejects
OrphanTickBatchFailed(o, id) ==
  LET tick == orphans[o].ticks[id] IN
  /\ tick.pc = "batch"
  /\ \E cause \in SchedulerCauses :
       /\ orphans' = [orphans EXCEPT ![o] =
            [@ EXCEPT !.ticks[id] = TickAfterThrow(@, tick.call),
                      !.metrics.errors = addError(@, BatchError(cause))]]
       /\ snapshot' = SnapshotAfterAddErrorOf(snapshot, o, BatchError(cause))
  /\ UNCHANGED <<exceptOrphanErrors, sink>>

Next ==
  \/ ClockAdvances
  \/ Awaited /\ StartCall
  \/ StartConnected
  \/ StartConnectFailed
  \/ Stop
  \/ TimerFires
  \/ \E id \in DOMAIN ticks : TickPostOk(id)
  \/ \E id \in DOMAIN ticks : TickPostFailed(id)
  \/ \E id \in DOMAIN ticks : TickBackoffElapsed(id)
  \/ \E id \in DOMAIN ticks : TickBatchOk(id)
  \/ \E id \in DOMAIN ticks : TickBatchFailed(id)

Spec == Init /\ [][Next]_vars

-----------------------------------------------------------------------------
(* SimulationManager: the scheduler that publishes over MQTT.  Its fields  *)
(* are those of UMHSimulationManager, with mqttClient for umhClient and no  *)
(* batches; the broker acknowledges the publishes of a client in order.     *)

\* config.outputFormat: unset or one of the three formats
OutputFormatOptions == {<<>>, <<"uns">>, <<"umh">>, <<"both">>}

\* this.config.outputFormat || 'uns'
OutputFormat == IF config.outputFormat = <<>> THEN "uns" ELSE config.outputFormat[1]

\* the prefix generateSensorReadings puts before the key of a reading in
\* its UNS topic path
InfoPrefix(sensorType) ==
  IF sensorType \in {<<"o", "p", "e", "r", "a", "t", "i", "o", "n", "a", "l">>,
                    <<"c", "y", "c", "l", "e", "-", "p", "h", "a", "s", "e">>}
    THEN <<"/", "i", "n", "f", "o", "/", "s", "t", "a", "t", "u", "s">>
  ELSE IF sensorType \in {<<"p", "a", "r", "t", "s", "-", "c", "o", "u", "n", "t">>,
                         <<"e", "f", "f", "i", "c", "i", "e", "n", "c", "y">>}
    THEN <<"/", "i", "n", "f", "o", "/", "p", "r", "o", "d", "u", "c", "t", "i", "o", "n">>
  ELSE <<"/", "i", "n", "f", "o", "/", "s", "e", "n", "s", "o", "r", "s">>

\* reading.topicPath, as generateSensorReadings builds it; outputFormat is
\* process.env.OUTPUT_FORMAT || 'uns'
topicPath(machine, sensorType, outputFormat) ==
  IF outputFormat \in {"umh", "umh-core"}
    THEN <<"u", "m", "h", "/", "v", "1", "/">>
         \o machine.enterprise \o <<"/">> \o machine.site \o <<"/">>
         \o machine.area \o <<"/">> \o machine.work_cell \o <<"/">>
         \o machine.machine_id \o <<"/", "_", "r", "a", "w">>
         \o <<"/">> \o sensorType
    ELSE machine.enterprise \o <<"/">> \o machine.site \o <<"/">>
         \o machine.area \o <<"/">> \o machine.work_cell \o <<"/">>
         \o machine.machine_id \o InfoPrefix(sensorType)
         \o <<"/">> \o sensorType

\* a variant of MqttMessagesOf: 'both' is not told from 'uns'
MqttMessagesOf_BothIsUns(reading, format) ==
  (IF format \in {"uns", "both"}
     THEN <<[payload |-> [value |-> reading.value, timestamp |-> reading.timestamp],
             topic |-> topicPath(reading.machine, reading.sensorType, format)]>>
     ELSE <<>>)
  \o (IF format \in {"umh"} /\ validateUMHMessage(convertToUMHMessage(reading))
        THEN <<[payload |-> convertToUMHMessage(reading).payload,
                topic |-> convertToUMHMessage(reading).topic]>>
        ELSE <<>>)

\* the publishMessage calls publishSensorData makes for one reading: the
\* payload of the reading under its topic path, and the payload of the
\* converted reading, if it passes validation, under its UMH topic.  The
\* environment variable OUTPUT_FORMAT is the one the configuration took
\* outputFormat from.
MqttMessagesOf(reading, format) ==
  (IF format \in {"uns", "both"}
     THEN <<[payload |-> [value |-> reading.value, timestamp |-> reading.timestamp],
             topic |-> topicPath(reading.machine, reading.sensorType, format)]>>
     ELSE <<>>)
  \o (IF format \in {"umh", "both"} /\ validateUMHMessage(convertToUMHMessage(reading))
        THEN <<[payload |-> convertToUMHMessage(reading).payload,
                topic |-> convertToUMHMessage(reading).topic]>>
        ELSE <<>>)

RECURSIVE MqttMessages(_, _)
MqttMessages(readings, format) ==
  IF readings = <<>> THEN <<>>
  ELSE MqttMessagesOf(Head(readings), format) \o MqttMessages(Tail(readings), format)

InitMqtt ==
  /\ now = StartInstant
  /\ CNC_MACHINES = Roster
  /\ \E k \in SchedulerDraws :
       generators = [m \in DOMAIN CNC_MACHINES |-> NewGenerator(Status(m), now, k, LeastDraws)]
  /\ NoPublisher
  /\ NoCall
  /\ \E f \in OutputFormatOptions : config = [outputFormat |-> f]
  /\ isRunning = FALSE
  /\ publishTimer = FALSE
  /\ timers = 0
  /\ startTime = now
  /\ metrics = NewMetrics
  /\ connecting = 0
  /\ ticks = <<>>

\* start() up to `await this.connectMQTT()`: mqtt.connect is called and the
\* client it returns takes the place of the one held.  The connections
\* awaited and the timers armed are followed up to MaxCalls.
MqttStartCall ==
  IF StartRejects(isRunning)
    THEN UNCHANGED vars
    ELSE /\ connecting + timers < MaxCalls
         /\ mqttClient' = <<[ended |-> FALSE]>>
         /\ connecting' = connecting + 1
         /\ UNCHANGED <<umhClient, pubCall, sink>>
         /\ UNCHANGED engineVars
         /\ UNCHANGED callVars
         /\ UNCHANGED <<config, isRunning, publishTimer, timers, startTime, metrics, ticks>>

\* the 'connect' event of a client a start() awaits: startPublishing(),
\* isRunning = true, startTime = new Date(); the handlers of the client
\* stay registered
MqttConnected ==
  /\ connecting > 0
  /\ connecting' = connecting - 1
  /\ timers' = timers + 1
  /\ publishTimer' = TRUE
  /\ isRunning' = TRUE
  /\ startTime' = now
  /\ listening' = TRUE
  /\ UNCHANGED pubVars
  /\ UNCHANGED engineVars
  /\ UNCHANGED <<lastReadings, adapterCall, lifecycle, snapshot, instance, orphans, closing>>
  /\ UNCHANGED <<config, metrics, ticks>>

\* the error the 'error' handler of the client records
MqttConnectionError(cause) ==
  [cause |-> <<cause>>, text |-> "MQTT connection error", attempts |-> 1]

\* the 'error' event of a client a start() awaits: addError, reject, and
\* cleanup() up to `await this.disconnectMQTT()`: the timer, if a handle is
\* held, is cancelled and end() of the client held is called
MqttConnectError ==
  /\ connecting > 0
  /\ Len(metrics.errors) < MaxErrors
  /\ connecting' = connecting - 1
  /\ \E cause \in SchedulerCauses :
       /\ metrics' = [metrics EXCEPT !.errors = addError(@, MqttConnectionError(cause))]
       /\ snapshot' = SnapshotAfterAddError(snapshot, MqttConnectionError(cause))
  /\ timers' = cleanup(Manager).timers
  /\ publishTimer' = cleanup(Manager).publishTimer
  /\ mqttClient' = <<[ended |-> TRUE]>>
  /\ closing' = Append(closing, [call |-> "cleanup", owner |-> 0])
  /\ listening' = TRUE
  /\ UNCHANGED <<umhClient, pubCall, sink>>
  /\ UNCHANGED engineVars
  /\ UNCHANGED <<lastReadings, adapterCall, lifecycle, instance, orphans>>
  /\ UNCHANGED <<config, isRunning, startTime, ticks>>

\* the 'error' event of a client of the scheduler held that no start()
\* awaits, whether it is the one in this.mqttClient or not and whether end()
\* was called on it or not: the handler stays registered, addError of the
\* scheduler that made the client, and reject() has no effect
MqttErrorEvent ==
  /\ listening
  /\ Len(metrics.errors) < MaxErrors
  /\ \E cause \in SchedulerCauses :
       /\ metrics' = [metrics EXCEPT !.errors = addError(@, MqttConnectionError(cause))]
       /\ snapshot' = SnapshotAfterAddError(snapshot, MqttConnectionError(cause))
  /\ UNCHANGED pubVars
  /\ UNCHANGED engineVars
  /\ UNCHANGED <<lastReadings, adapterCall, lifecycle, processVars>>
  /\ UNCHANGED <<config, isRunning, publishTimer, timers, startTime, connecting, ticks>>

\* the callback of end() runs for the i-th call, a cleanup(): the scheduler
\* that called it sets isRunning = false (and its start() throws), be it
\* the scheduler held or one that was replaced since
MqttClientEnded(i) ==
  /\ closing[i].call = "cleanup"
  /\ closing' = Without(closing, i)
  /\ IF closing[i].owner = 0
       THEN /\ isRunning' = cleanup(Manager).isRunning
            /\ UNCHANGED orphans
       ELSE /\ orphans' = [orphans EXCEPT ![closing[i].owner].isRunning = FALSE]
            /\ UNCHANGED isRunning
  /\ UNCHANGED pubVars
  /\ UNCHANGED engineVars
  /\ UNCHANGED <<lastReadings, adapterCall, lifecycle, snapshot, instance, listening>>
  /\ UNCHANGED <<config, publishTimer, timers, startTime, metrics, connecting, ticks>>

\* the MQTT scheduler s can still act: a start() awaits its connection, an
\* interval timer is armed, or the callback of a publish has not run
MqttAlive(s) ==
  \/ s.connecting > 0
  \/ s.timers > 0
  \/ \E id \in DOMAIN s.ticks : s.ticks[id].settled < Len(s.ticks[id].messages)

\* the calls of cleanup() of the scheduler held that await the callback of
\* end()
CleanupsPending ==
  {i \in DOMAIN closing : closing[i].call = "cleanup" /\ closing[i].owner = 0}

\* the scheduler held goes on for itself when it is replaced: it can still
\* act, a cleanup() of it awaits its callback, or the 'error' handler of a
\* client of it is registered
MqttKept == MqttAlive(Held) \/ CleanupsPending # {} \/ listening

\* static startSimulation(config) of SimulationManager: as that of the UMH
\* scheduler, with mqtt.connect for the client.  A cleanup() of the
\* scheduler replaced that awaits its callback is then a call of that
\* scheduler.
MqttStartSimulation ==
  /\ Len(lifecycle) < MaxCalls
  /\ lifecycle' = Append(lifecycle, [op |-> "startSimulation", awaiting |-> connecting,
                                      rejected |-> instance /\ StartRejects(isRunning)])
  /\ IF instance /\ StartRejects(isRunning)
       THEN /\ UNCHANGED <<engineVars, pubVars, managerVars>>
            /\ UNCHANGED <<lastReadings, adapterCall, snapshot, processVars>>
       ELSE /\ instance' = TRUE
            /\ orphans' = IF MqttKept THEN Append(orphans, Held) ELSE orphans
            /\ closing' = [i \in 1 .. Len(closing) |->
                             IF i \in CleanupsPending
                               THEN [closing[i] EXCEPT !.owner = Len(orphans) + 1]
                               ELSE closing[i]]
            /\ listening' = FALSE
            /\ snapshot' = SnapshotAfterReplaced(snapshot, MqttKept)
            /\ \E k \in SchedulerDraws :
                 generators' = [m \in DOMAIN CNC_MACHINES |->
                                  NewGenerator(Status(m), now, k, LeastDraws)]
            /\ startTime' = now
            /\ metrics' = NewMetrics
            /\ isRunning' = FALSE
            /\ publishTimer' = FALSE
            /\ timers' = 0
            /\ ticks' = <<>>
            /\ mqttClient' = <<[ended |-> FALSE]>>
            /\ connecting' = 1
            /\ UNCHANGED <<now, CNC_MACHINES, umhClient, pubCall, sink, config>>
            /\ UNCHANGED <<lastReadings, adapterCall>>

\* static stopSimulation() of SimulationManager up to `await
\* SimulationManager.instance.stop()`: it returns at once when the static
\* field is null; else stop() of the instance held runs up to its own
\* await (end() of the client is called when the instance is running), and
\* the static field stays as it is until stop() has returned
MqttStopSimulation ==
  /\ Len(lifecycle) < MaxCalls
  /\ lifecycle' = Append(lifecycle, [op |-> "stopSimulation", awaiting |-> connecting,
                                      rejected |-> FALSE])
  /\ IF ~instance
       THEN UNCHANGED <<isRunning, timers, publishTimer, mqttClient, closing>>
       ELSE /\ isRunning' = stop(Manager).isRunning
            /\ timers' = stop(Manager).timers
            /\ publishTimer' = stop(Manager).publishTimer
            /\ mqttClient' = IF isRunning /\ mqttClient # <<>>
                               THEN <<[ended |-> TRUE]>> ELSE mqttClient
            /\ closing' = Append(closing, [call |-> "stopSimulation"])
  /\ UNCHANGED <<umhClient, pubCall, sink>>
  /\ UNCHANGED engineVars
  /\ UNCHANGED <<config, startTime, metrics, connecting, ticks>>
  /\ UNCHANGED <<lastReadings, adapterCall, snapshot, instance, orphans, listening>>

\* stop(): as stop() of the UMH scheduler, and mqttClient.end() is called
MqttStop ==
  /\ isRunning' = stop(Manager).isRunning
  /\ timers' = stop(Manager).timers
  /\ publishTimer' = stop(Manager).publishTimer
  /\ mqttClient' = IF isRunning /\ mqttClient # <<>>
                     THEN <<[ended |-> TRUE]>> ELSE mqttClient
  /\ UNCHANGED <<umhClient, pubCall, sink>>
  /\ UNCHANGED engineVars
  /\ UNCHANGED callVars
  /\ UNCHANGED <<config, startTime, metrics, connecting, ticks>>

\* the interval timer fires: publishSensorData() runs to its end.  Every
\* message is handed to mqttClient.publish with a callback, and the metrics
\* are updated; `settled` counts the callbacks that have run.
MqttTimerFires ==
  /\ timers > 0
  /\ Len(ticks) < MaxMqttTicks
  /\ IF mqttClient = <<>> \/ ~isRunning
       THEN UNCHANGED <<generators, ticks, metrics>>
       ELSE /\ generators' \in TickedGenerators(generators, OperationalIds, now)
            /\ ticks' = Append(ticks,
                 [messages |-> MqttMessages(GeneratedReadings(OperationalIds, now),
                                            OutputFormat),
                  machines |-> Len(OperationalIds),
                  settled |-> 0,
                  metricsUpdated |-> TRUE])
            /\ metrics' = updateMetrics(
                            [metrics EXCEPT !.activeMachines = Len(OperationalIds)], now)
  /\ UNCHANGED <<now, CNC_MACHINES>>
  /\ UNCHANGED callVars
  /\ UNCHANGED pubVars
  /\ UNCHANGED <<config, isRunning, publishTimer, timers, startTime, connecting>>

\* the callback of the next publish of a tick runs without error
MqttPublishAcked(id) ==
  /\ ticks[id].settled < Len(ticks[id].messages)
  /\ sink' = Deliver(sink, ticks[id].messages[ticks[id].settled + 1])
  /\ ticks' = [ticks EXCEPT ![id].settled = @ + 1]
  /\ metrics' = [metrics EXCEPT !.totalMessagesPublished = @ + 1]
  /\ UNCHANGED <<umhClient, pubCall, mqttClient>>
  /\ UNCHANGED engineVars
  /\ UNCHANGED callVars
  /\ UNCHANGED <<config, isRunning, publishTimer, timers, startTime, connecting>>

\* the callback of the next publish of a tick runs with an error: addError
MqttPublishFailed(id) ==
  /\ ticks[id].settled < Len(ticks[id].messages)
  /\ ticks' = [ticks EXCEPT ![id].settled = @ + 1]
  /\ \E cause \in SchedulerCauses :
       LET error == [cause |-> <<cause>>, text |-> "Publish error for topic",
                     attempts |-> 1]
       IN  /\ metrics' = [metrics EXCEPT !.errors = addError(@, error)]
           /\ snapshot' = SnapshotAfterAddError(snapshot, error)
  /\ UNCHANGED pubVars
  /\ UNCHANGED engineVars
  /\ UNCHANGED <<lastReadings, adapterCall, lifecycle, processVars>>
  /\ UNCHANGED <<config, isRunning, publishTimer, timers, startTime, connecting>>

\* getMetrics(): updateMetrics(), then { ...this.metrics }, a new object
\* that holds the counters by value and the array `errors` by reference
MqttGetMetrics ==
  /\ metrics' = updateMetrics(metrics, now)
  /\ snapshot' = <<[owner |-> 0, shared |-> TRUE,
                     object |-> updateMetrics(metrics, now)]>>
  /\ UNCHANGED <<config, isRunning, publishTimer, timers, startTime, connecting, ticks>>
  /\ UNCHANGED pubVars
  /\ UNCHANGED engineVars
  /\ UNCHANGED <<lastReadings, adapterCall, lifecycle, processVars>>

\* static getMetrics(): SimulationManager.instance?.getMetrics() || null
MqttGetMetricsOfInstance ==
  IF instance
    THEN MqttGetMetrics
    ELSE /\ snapshot' = <<>>
         /\ UNCHANGED <<engineVars, pubVars, managerVars>>
         /\ UNCHANGED <<lastReadings, adapterCall, lifecycle, processVars>>

\* the 'connect' event of a client a start() of the replaced scheduler o
\* awaits: startPublishing(), isRunning = true, startTime = new Date()
MqttOrphanConnected(o) ==
  /\ orphans[o].connecting > 0
  /\ orphans' = [orphans EXCEPT ![o] =
                   [@ EXCEPT !.connecting = @ - 1,
                             !.timers = @ + 1,
                             !.publishTimer = TRUE,
                             !.isRunning = TRUE,
                             !.startTime = now,
                             !.listening = TRUE]]
  /\ UNCHANGED <<exceptOrphans, sink>>

\* the 'error' event of a client a start() of the replaced scheduler o
\* awaits: addError, reject, and cleanup() of that scheduler up to `await
\* this.disconnectMQTT()`
MqttOrphanConnectError(o) ==
  /\ orphans[o].connecting > 0
  /\ Len(orphans[o].metrics.errors) < MaxErrors
  /\ \E cause \in SchedulerCauses :
       /\ orphans' = [orphans EXCEPT ![o] =
                        [@ EXCEPT !.connecting = @ - 1,
                                  !.metrics.errors = addError(@, MqttConnectionError(cause)),
                                  !.timers = cleanup(orphans[o]).timers,
                                  !.publishTimer = cleanup(orphans[o]).publishTimer,
                                  !.listening = TRUE]]
       /\ snapshot' = SnapshotAfterAddErrorOf(snapshot, o, MqttConnectionError(cause))
  /\ closing' = Append(closing, [call |-> "cleanup", owner |-> o])
  /\ UNCHANGED <<now, CNC_MACHINES, generators, pubVars, managerVars>>
  /\ UNCHANGED <<lastReadings, adapterCall, lifecycle, instance, listening>>

\* the 'error' event of a client of the replaced scheduler o that no
\* start() awaits: addError of that scheduler, whose `errors` a snapshot
\* taken of it shares
MqttOrphanErrorEvent(o) ==
  /\ orphans[o].listening
  /\ Len(orphans[o].metrics.errors) < MaxErrors
  /\ \E cause \in SchedulerCauses :
       /\ orphans' = [orphans EXCEPT ![o].metrics.errors =
                        addError(@, MqttConnectionError(cause))]
       /\ snapshot' = SnapshotAfterAddErrorOf(snapshot, o, MqttConnectionError(cause))
  /\ UNCHANGED <<exceptOrphanErrors, sink>>

\* the interval timer of the replaced scheduler o fires: its
\* publishSensorData() runs to its end, with its engines, its client (it
\* has one, its timer having been set after 'connect') and its metrics.
\* Every scheduler is built with the same machines and output format as
\* the one held.
MqttOrphanTimerFires(o) ==
  /\ orphans[o].timers > 0
  /\ Len(orphans[o].ticks) < MaxMqttTicks
  /\ IF ~orphans[o].isRunning
       THEN UNCHANGED orphans
       ELSE \E gens \in TickedGenerators(orphans[o].generators, OperationalIds, now) :
              orphans' = [orphans EXCEPT ![o] =
                [@ EXCEPT !.generators = gens,
                          !.ticks = Append(@,
                            [messages |-> MqttMessages(GeneratedReadings(OperationalIds, now),
                                                       OutputFormat),
                             machines |-> Len(OperationalIds),
                             settled |-> 0,
                             metricsUpdated |-> TRUE]),
                          !.metrics = updateMetricsSince(
                                        [@ EXCEPT !.activeMachines = Len(OperationalIds)],
                                        orphans[o].startTime, now)]]
  /\ UNCHANGED <<exceptOrphans, sink>>

\* the callback of the next publish of a tick of the replaced scheduler o
\* runs without error
MqttOrphanPublishAcked(o, id) ==
  LET tick == orphans[o].ticks[id] IN
  /\ tick.settled < Len(tick.messages)
  /\ sink' = Deliver(sink, tick.messages[tick.settled + 1])
  /\ orphans' = [orphans EXCEPT ![o] =
                   [@ EXCEPT !.ticks[id].settled = @ + 1,
                             !.metrics.totalMessagesPublished = @ + 1]]
  /\ UNCHANGED exceptOrphans

\* the callback of the next publish of a tick of the replaced scheduler o
\* runs with an error: addError
MqttOrphanPublishFailed(o, id) ==
  LET tick == orphans[o].ticks[id] IN
  /\ tick.settled < Len(tick.messages)
  /\ \E cause \in SchedulerCauses :
       LET error == [cause |-> <<cause>>, text |-> "Publish error for topic",
                     attempts |-> 1]
       IN  /\ orphans' = [orphans EXCEPT ![o] =
                            [@ EXCEPT !.ticks[id].settled = @ + 1,
                                      !.metrics.errors = addError(@, error)]]
           /\ snapshot' = SnapshotAfterAddErrorOf(snapshot, o, error)
  /\ UNCHANGED <<exceptOrphanErrors, sink>>

NextMqtt ==
  \/ ClockAdvances
  \/ Awaited /\ MqttStartCall
  \/ MqttConnected
  \/ MqttConnectError
  \/ MqttErrorEvent
  \/ \E i \in DOMAIN closing : MqttClientEnded(i)
  \/ MqttStop
  \/ MqttTimerFires
  \/ \E id \in DOMAIN ticks : MqttPublishAcked(id)
  \/ \E id \in DOMAIN ticks : MqttPublishFailed(id)

SpecMqtt == InitMqtt /\ [][NextMqtt]_vars

-----------------------------------------------------------------------------
(* The MQTT scheduler while the broker accepts the connection and every    *)
(* publish                                                                 *)

NextMqttAccepting ==
  \/ ClockAdvances
  \/ Awaited /\ MqttStartCall
  \/ MqttConnected
  \/ MqttStop
  \/ MqttTimerFires
  \/ \E id \in DOMAIN ticks : MqttPublishAcked(id)

SpecMqttAccepting == InitMqtt /\ [][NextMqttAccepting]_vars

-----------------------------------------------------------------------------
(* The MQTT scheduler with callers that do not await one another, and the  *)
(* static calls.  A scheduler is replaced when no start() of it awaits its  *)
(* connection, none of its timers is armed and its publishes have been      *)
(* acknowledged; the broker acknowledges every publish, and the clock       *)
(* stands still.                                                            *)

NextMqttRace ==
  \/ MqttStartCall
  \/ Len(lifecycle) < MaxStaticCalls /\ ~MqttAlive(Held) /\ MqttStartSimulation
  \/ Len(lifecycle) < MaxStaticCalls /\ MqttStopSimulation
  \/ \E i \in DOMAIN closing : StopSimulationResumes(i)
  \/ MqttConnected
  \/ MqttConnectError
  \/ MqttErrorEvent
  \/ \E i \in DOMAIN closing : MqttClientEnded(i)
  \/ MqttStop
  \/ MqttTimerFires
  \/ \E id \in DOMAIN ticks : MqttPublishAcked(id)

\* the scheduler is configured without an output format
InitMqttRace == InitMqtt /\ config.outputFormat = <<>>

SpecMqttRace == InitMqttRace /\ [][NextMqttRace]_vars

-----------------------------------------------------------------------------
(* The MQTT scheduler and a caller of getMetrics() that awaits             *)
(* startSimulation(): the static calls and getMetrics() of the scheduler,  *)
(* while the connection is made or fails                                   *)

NextMqttStatic ==
  \/ ClockAdvances
  \/ Awaited /\ MqttStartSimulation
  \/ MqttStopSimulation
  \/ \E i \in DOMAIN closing : StopSimulationResumes(i)
  \/ MqttConnected
  \/ MqttConnectError
  \/ MqttErrorEvent
  \/ \E i \in DOMAIN closing : MqttClientEnded(i)
  \/ \E o \in DOMAIN orphans : MqttOrphanErrorEvent(o)
  \/ MqttGetMetrics
  \/ MqttGetMetricsOfInstance

SpecMqttStatic == InitMqttRace /\ [][NextMqttStatic]_vars

-----------------------------------------------------------------------------
(* The MQTT scheduler replaced while it goes on: startSimulation() is      *)
(* called at any moment, MaxStaticCalls times, and the scheduler it        *)
(* replaces still connects or fails to, ticks, and has its publishes       *)
(* acknowledged or refused and the errors of its clients recorded, beside  *)
(* the scheduler that took its place.  The clock stands still.             *)

NextMqttReplaced ==
  \/ Len(lifecycle) < MaxStaticCalls /\ MqttStartSimulation
  \/ MqttConnected
  \/ MqttConnectError
  \/ \E i \in DOMAIN closing : MqttClientEnded(i)
  \/ MqttTimerFires
  \/ \E id \in DOMAIN ticks : MqttPublishAcked(id)
  \/ \E id \in DOMAIN ticks : MqttPublishFailed(id)
  \/ MqttGetMetricsOfInstance
  \/ \E o \in DOMAIN orphans : MqttOrphanConnected(o)
  \/ \E o \in DOMAIN orphans : MqttOrphanConnectError(o)
  \/ \E o \in DOMAIN orphans : MqttOrphanErrorEvent(o)
  \/ \E o \in DOMAIN orphans : MqttOrphanTimerFires(o)
  \/ \E o \in DOMAIN orphans : \E id \in DOMAIN orphans[o].ticks :
       MqttOrphanPublishAcked(o, id)
  \/ \E o \in DOMAIN orphans : \E id \in DOMAIN orphans[o].ticks :
       MqttOrphanPublishFailed(o, id)

SpecMqttReplaced == InitMqttRace /\ [][NextMqttReplaced]_vars

-----------------------------------------------------------------------------
(* addError alone: errors are recorded one after the other; the k-th error *)
(* recorded carries the number k and one of the causes                     *)

InitErrors ==
  /\ now = StartInstant
  /\ CNC_MACHINES = Roster
  /\ generators = [m \in DOMAIN CNC_MACHINES |-> NewGenerator(Status(m), now, 0, LeastDraws)]
  /\ NoPublisher
  /\ NoCall
  /\ NoManager

\* the number of errors recorded so far
Recorded == IF metrics.errors = <<>> THEN 0
            ELSE metrics.errors[Len(metrics.errors)].n

RecordError ==
  /\ Recorded < MaxRecorded
  /\ \E cause \in Causes :
       metrics' = [metrics EXCEPT
                     !.errors = addError(@, [n |-> Recorded + 1, cause |-> cause,
                                             text |-> "error"])]
  /\ UNCHANGED <<config, isRunning, publishTimer, timers, startTime, connecting, ticks>>
  /\ UNCHANGED pubVars
  /\ UNCHANGED engineVars
  /\ UNCHANGED callVars

SpecErrors == InitErrors /\ [][RecordError]_vars

-----------------------------------------------------------------------------
(* The scheduler over readings of any shape, UMH-Core accepting every       *)
(* publish: a tick is given MaxCandidates readings, sound or not            *)

\* readings a generator could hand to the scheduler: two sound ones (one
\* with value 0), one without value, one whose timestamp does not parse
\* (NaN), one at the epoch (0), one whose sensor key is empty
Candidates ==
  {[value |-> <<1>>, machine |-> Roster["cnc-001"],
    sensorType |-> <<"s", "p", "i", "n", "d", "l", "e", "-", "s", "p", "e", "e", "d">>,
    timestamp |-> <<StartInstant>>],
   [value |-> <<0>>, machine |-> Roster["cnc-001"],
    sensorType |-> <<"s", "p", "i", "n", "d", "l", "e", "-", "l", "o", "a", "d">>,
    timestamp |-> <<StartInstant>>],
   [value |-> <<>>, machine |-> Roster["cnc-001"],
    sensorType |-> <<"f", "e", "e", "d", "r", "a", "t", "e">>,
    timestamp |-> <<StartInstant>>],
   [value |-> <<1>>, machine |-> Roster["cnc-006"],
    sensorType |-> <<"v", "i", "b", "r", "a", "t", "i", "o", "n">>, timestamp |-> <<>>],
   [value |-> <<1>>, machine |-> Roster["cnc-006"],
    sensorType |-> <<"t", "e", "m", "p", "e", "r", "a", "t", "u", "r", "e">>,
    timestamp |-> <<0>>],
   [value |-> <<1>>, machine |-> Roster["cnc-006"],
    sensorType |-> <<>>, timestamp |-> <<StartInstant>>]}

CandidateLists == [1 .. MaxCandidates -> Candidates]

ValidationTimerFires ==
  \E readings \in CandidateLists :
    TimerFiresWith(MaxTicks, CollectMessages(readings))

NextValidation ==
  \/ Awaited /\ StartCall
  \/ StartConnected
  \/ ValidationTimerFires
  \/ \E id \in DOMAIN ticks : TickPostOk(id)

SpecValidation == Init /\ [][NextValidation]_vars

-----------------------------------------------------------------------------
(* CNCDataGeneratorFactory: the engines of the roster, each ticked on its  *)
(* own by a caller that reads the current-tool reading it returns          *)

\* the instants of the clock of the factory: every ten minutes, and the
\* millisecond before
FactoryInstants ==
  {i * 600000 - o : i \in 2 .. MaxFactorySteps + 1, o \in {0, 1}}

\* the draws of the constructors of the factory: one baseline and the wear
\* of the odd tools take the least draw and the other baseline and the wear
\* of the even tools the greatest, or the other way round
FactoryDraws ==
  {[vibration |-> a, temperature |-> RandDen - 1 - a,
    wear |-> [i \in 1 .. ToolCount |-> IF i % 2 = 1 THEN a ELSE RandDen - 1 - a]] :
     a \in SchedulerDraws}

\* the engines after getGenerator(m).generateSensorReadings() at time t
TickOne(gens, m, t, kb, k) ==
  [gens EXCEPT ![m] = generateSensorReadings(gens[m], t, kb, k)]

\* a variant of TickOneOver: the cycle is shared by the engines
TickOneOver_SharedCycle(gens, m, reads, kb, k) ==
  [x \in DOMAIN gens |->
     [gens[x] EXCEPT
        !.currentCycle = generateSensorReadingsOver(gens[m], reads, kb, k).currentCycle,
        !.totalPartsProduced =
          IF x = m THEN generateSensorReadingsOver(gens[m], reads, kb, k).totalPartsProduced
                   ELSE @,
        !.lastUpdate = IF x = m THEN reads[3] ELSE @]]

\* the engines after getGenerator(m).generateSensorReadings() while the
\* clock moves
TickOneOver(gens, m, reads, kb, k) ==
  [gens EXCEPT ![m] = generateSensorReadingsOver(gens[m], reads, kb, k)]

\* what the reads of the clock in one call of generateSensorReadings() can
\* see, in their order: updateCycle, advanceCyclePhase, `const now`,
\* generateCurrentToolPayload.  The clock may move on by a millisecond (to
\* the next instant of the clock that is followed) between any two of them.
ClockReads ==
  {r \in [1 .. 4 -> {now} \cup ({now + 1} \cap FactoryInstants)] :
     \A i \in 1 .. 3 : r[i] <= r[i + 1]}

InitFactory ==
  /\ now = StartInstant
  /\ CNC_MACHINES = Roster
  /\ \E k \in SchedulerDraws, r \in [DOMAIN Roster -> FactoryDraws] :
       generators = [m \in DOMAIN CNC_MACHINES |->
                       NewGenerator(Status(m), now, k, r[m])]
  /\ NoPublisher
  /\ NoManager
  /\ NoCall

FactoryClockAdvances ==
  /\ \E t \in FactoryInstants :
       /\ t > now
       /\ now' = t
  /\ UNCHANGED <<CNC_MACHINES, generators>>
  /\ UNCHANGED <<pubVars, managerVars, callVars>>

\* getGenerator(m).generateSensorReadings(): updateCycle,
\* advanceCyclePhase, generateSensorReadings itself and
\* generateCurrentToolPayload each read the clock, which may have moved on
\* from one read to the next; the caller keeps the current-tool reading
FactoryTick(m) ==
  /\ \E reads \in ClockReads, kb \in SchedulerDraws, k \in SchedulerDraws :
       /\ now' = reads[4]
       /\ generators' = TickOneOver(generators, m, reads, kb, k)
       /\ lastReadings' =
            <<[machine |-> m,
               clock |-> reads[4],
               currentTool |-> generateCurrentToolPayload(generators'[m], reads[4])]>>
  /\ UNCHANGED <<CNC_MACHINES, adapterCall, lifecycle, snapshot, processVars>>
  /\ UNCHANGED <<pubVars, managerVars>>

NextFactory ==
  \/ FactoryClockAdvances
  \/ \E m \in DOMAIN generators : FactoryTick(m)

SpecFactory == InitFactory /\ [][NextFactory]_vars

-----------------------------------------------------------------------------
(* The readings of an engine: one machine of any classification, ticked    *)
(* directly by a caller that keeps the spindle-speed and the               *)
(* operational-status reading                                              *)

\* generator.generateSensorReadings(): updateCycle, then the payloads, built
\* from the cycle as updateCycle left it; generateSpindleSpeedPayload draws
\* a number and takes the sine in machining only
ReadingsTick(m) ==
  /\ \E kb \in SchedulerDraws, k \in SchedulerDraws :
     \E r \in IF TickOne(generators, m, now, kb, k)[m].currentCycle.phase = "machining"
                THEN SchedulerDraws ELSE {0},
        s \in IF TickOne(generators, m, now, kb, k)[m].currentCycle.phase = "machining"
                THEN SinSamples ELSE {0} :
       /\ generators' = TickOne(generators, m, now, kb, k)
       /\ lastReadings' =
            <<[machine |-> m,
               spindleSpeed |->
                 generateSpindleSpeedPayload(CNC_MACHINES[m], generators'[m], r, s),
               operationalStatus |->
                 generateOperationalStatusPayload(CNC_MACHINES[m], generators'[m])]>>
  /\ UNCHANGED <<now, CNC_MACHINES, adapterCall, lifecycle, snapshot, processVars>>
  /\ UNCHANGED <<pubVars, managerVars>>

NextReadings ==
  \/ AdvanceClock
  \/ \E m \in DOMAIN CNC_MACHINES : ReadingsTick(m)

SpecReadings == InitEngine /\ [][NextReadings]_vars

-----------------------------------------------------------------------------
(* An engine that keeps being ticked: one machine of any classification,   *)
(* ticked by its caller once in every period, as the timer of a scheduler  *)
(* does; the clock moves on by one period once the tick of the period has  *)
(* been made                                                               *)

\* the period of the ticks, ms: ten minutes, the shortest machining phase
TickPeriod == 600 * 1000

\* the instant at which the clock stops
LastLiveInstant == StartInstant + MaxLiveSteps * TickPeriod

LiveClockAdvances ==
  /\ now < LastLiveInstant
  /\ \A m \in DOMAIN generators : generators[m].lastUpdate = now
  /\ now' = now + TickPeriod
  /\ UNCHANGED <<CNC_MACHINES, generators>>
  /\ UNCHANGED <<pubVars, managerVars, callVars>>

\* generator.generateSensorReadings(), with any draw for the branch taken
\* after unloading
LiveTick(m) ==
  /\ m \in DOMAIN generators
  /\ \E kb \in Draws, k \in SchedulerDraws :
       generators' = TickOne(generators, m, now, kb, k)
  /\ UNCHANGED <<now, CNC_MACHINES>>
  /\ UNCHANGED <<pubVars, managerVars, callVars>>

NextLive ==
  \/ LiveClockAdvances
  \/ \E m \in DOMAIN Roster : LiveTick(m)

\* time keeps advancing and the engine keeps being ticked
SpecLive ==
  /\ InitEngine
  /\ [][NextLive]_vars
  /\ WF_vars(LiveClockAdvances)
  /\ \A m \in DOMAIN Roster : WF_vars(LiveTick(m))

-----------------------------------------------------------------------------
(* The adapter alone: a caller converts a reading and validates the        *)
(* message, or validates a message of its own                              *)

\* the characters of the sensor keys given to the adapter
KeyChars == {"a", "-", "_"}

\* the sensor keys given to the adapter: every key of at most MaxKeyLen
\* characters, and the keys of the readings of a five-axis machine
SensorKeys ==
  UNION {[1 .. n -> KeyChars] : n \in 0 .. MaxKeyLen}
  \cup {SensorTypes(Roster["cnc-006"])[i] :
          i \in DOMAIN SensorTypes(Roster["cnc-006"])}

\* the readings given to convertToUMHMessage: payload.value is undefined,
\* 0 or 1; payload.timestamp does not parse, is the epoch or is a date
AdapterReadings ==
  [value : {<<>>, <<0>>, <<1>>},
   machine : {Roster[m] : m \in DOMAIN Roster},
   sensorType : SensorKeys,
   timestamp : {<<>>, <<0>>, <<StartInstant>>}]

\* the messages given to validateUMHMessage by a caller that built them
\* itself: every field is sound, or falsy, or (timestamp_ms) infinite, or
\* (topic) without the umh.v1. prefix
AdapterMessages ==
  [payload : [value : {<<>>, <<1>>},
              timestamp_ms : {<<>>, <<0>>, <<StartInstant>>, <<Infinity>>}],
   metadata : [data_contract : {<<>>, RAW},
               tag_name : {<<>>, <<"t">>},
               location_path : {<<>>, <<"p">>}],
   topic : {<<>>, <<"p", ".", "t">>,
            <<"u", "m", "h", ".", "v", "1", ".", "p", ".", "t">>}]

InitAdapter ==
  /\ now = StartInstant
  /\ CNC_MACHINES = Roster
  /\ generators = <<>>
  /\ NoPublisher
  /\ NoManager
  /\ NoCall

\* UMHAdapter.convertToUMHMessage(reading)
AdapterConvert ==
  /\ adapterCall.pc = "idle"
  /\ \E reading \in AdapterReadings :
       adapterCall' = [pc |-> "converted",
                       reading |-> <<reading>>,
                       message |-> convertToUMHMessage(reading)]
  /\ UNCHANGED <<engineVars, pubVars, managerVars, lastReadings, lifecycle, snapshot, processVars>>

\* UMHAdapter.validateUMHMessage(message), of a message of the caller
AdapterTakeMessage ==
  /\ adapterCall.pc = "idle"
  /\ \E message \in AdapterMessages :
       adapterCall' = [pc |-> "converted", reading |-> <<>>, message |-> message]
  /\ UNCHANGED <<engineVars, pubVars, managerVars, lastReadings, lifecycle, snapshot, processVars>>

\* UMHAdapter.validateUMHMessage(message)
AdapterValidate ==
  /\ adapterCall.pc = "converted"
  /\ adapterCall' = [pc |-> "validated",
                     reading |-> adapterCall.reading,
                     message |-> adapterCall.message,
                     valid |-> validateUMHMessage(adapterCall.message)]
  /\ UNCHANGED <<engineVars, pubVars, managerVars, lastReadings, lifecycle, snapshot, processVars>>

\* the caller is done with the message
AdapterReturn ==
  /\ adapterCall.pc = "validated"
  /\ adapterCall' = [pc |-> "idle"]
  /\ UNCHANGED <<engineVars, pubVars, managerVars, lastReadings, lifecycle, snapshot, processVars>>

NextAdapter ==
  \/ AdapterConvert
  \/ AdapterTakeMessage
  \/ AdapterValidate
  \/ AdapterReturn

SpecAdapter == InitAdapter /\ [][NextAdapter]_vars

-----------------------------------------------------------------------------
(* The scheduler while UMH-Core accepts every publish: its life cycle      *)

NextAccepting ==
  \/ ClockAdvances
  \/ Awaited /\ StartCall
  \/ StartConnected
  \/ StartConnectFailed
  \/ Stop
  \/ TimerFires
  \/ \E id \in DOMAIN ticks : TickPostOk(id)
  \/ \E id \in DOMAIN ticks : TickBatchOk(id)

SpecAccepting == Init /\ [][NextAccepting]_vars

-----------------------------------------------------------------------------
(* The scheduler while UMH-Core rejects every publish                      *)

OutageTimerFires == TimerFiresUpTo(MaxOutageTicks)

NextOutage ==
  \/ ClockAdvances
  \/ Awaited /\ StartCall
  \/ StartConnected
  \/ Stop
  \/ OutageTimerFires
  \/ \E id \in DOMAIN ticks : TickPostFailed(id)
  \/ \E id \in DOMAIN ticks : TickBackoffElapsed(id)
  \/ \E id \in DOMAIN ticks : TickBatchFailed(id)

SpecOutage == Init /\ [][NextOutage]_vars

-----------------------------------------------------------------------------
(* The scheduler with callers that do not await one another: start() and   *)
(* stop() are called while a start() is still awaiting connect().  A call   *)
(* is recorded as [op, awaiting, rejected]: awaiting is the number of       *)
(* start() calls that were awaiting connect() when it was made, rejected    *)
(* tells that a start() threw at its guard.  UMH-Core accepts every         *)
(* publish.                                                                 *)

\* start() up to `await this.umhClient.connect()`, whatever other calls
\* are in flight
RaceStart ==
  /\ Len(lifecycle) < MaxCalls
  /\ lifecycle' = Append(lifecycle, [op |-> "start", awaiting |-> connecting,
                                      rejected |-> StartRejects(isRunning)])
  /\ IF StartRejects(isRunning)
       THEN UNCHANGED <<umhClient, connecting>>
       ELSE /\ umhClient' = <<NewUMHClient(<<3>>)>>
            /\ connecting' = connecting + 1
  /\ UNCHANGED <<pubCall, sink, mqttClient>>
  /\ UNCHANGED engineVars
  /\ UNCHANGED <<lastReadings, adapterCall, snapshot, processVars>>
  /\ UNCHANGED <<config, isRunning, publishTimer, timers, startTime, metrics, ticks>>

\* stop(), whatever other calls are in flight
RaceStop ==
  /\ Len(lifecycle) < MaxCalls
  /\ lifecycle' = Append(lifecycle, [op |-> "stop", awaiting |-> connecting,
                                      rejected |-> FALSE])
  /\ isRunning' = stop(Manager).isRunning
  /\ timers' = stop(Manager).timers
  /\ publishTimer' = stop(Manager).publishTimer
  /\ UNCHANGED pubVars
  /\ UNCHANGED engineVars
  /\ UNCHANGED <<lastReadings, adapterCall, snapshot, processVars>>
  /\ UNCHANGED <<config, startTime, metrics, connecting, ticks>>

NextRace ==
  \/ RaceStart
  \/ RaceStop
  \/ StartSimulation
  \/ StopSimulation
  \/ \E i \in DOMAIN closing : StopSimulationResumes(i)
  \/ StartConnected
  \/ StartConnectFailed
  \/ TimerFires
  \/ \E id \in DOMAIN ticks : TickPostOk(id)
  \/ \E id \in DOMAIN ticks : TickBatchOk(id)
  \/ \E o \in DOMAIN orphans : OrphanConnected(o)
  \/ \E o \in DOMAIN orphans : OrphanConnectFailed(o)
  \/ \E o \in DOMAIN orphans : OrphanTimerFires(o)
  \/ \E o \in DOMAIN orphans : \E id \in DOMAIN orphans[o].ticks : OrphanTickPostOk(o, id)
  \/ \E o \in DOMAIN orphans : \E id \in DOMAIN orphans[o].ticks : OrphanTickBatchOk(o, id)

SpecRace == Init /\ [][NextRace]_vars

-----------------------------------------------------------------------------
(* The scheduler and a caller of getMetrics().  getMetrics() returns        *)
(* { ...this.metrics }: a new object that holds the counters by value and   *)
(* the array `errors` by reference.  A snapshot is [object, shared,         *)
(* owner]: object is what the caller reads in it, shared tells that its     *)
(* `errors` is still the array metrics.errors of the scheduler `owner`      *)
(* refers to.  UMH-Core accepts every publish; connect() may fail.          *)

\* getMetrics(): updateMetrics(), then the copy of the properties
GetMetrics ==
  /\ metrics' = updateMetrics(metrics, now)
  /\ snapshot' = <<[owner |-> 0, shared |-> TRUE,
                     object |-> updateMetrics(metrics, now)]>>
  /\ UNCHANGED <<config, isRunning, publishTimer, timers, startTime, connecting, ticks>>
  /\ UNCHANGED pubVars
  /\ UNCHANGED engineVars
  /\ UNCHANGED <<lastReadings, adapterCall, lifecycle, processVars>>

\* connect() rejected: addError, cleanup(), and start() throws
SnapshotConnectFailed ==
  /\ connecting > 0
  /\ connecting' = connecting - 1
  /\ \E cause \in SchedulerCauses :
       /\ metrics' = [metrics EXCEPT !.errors = addError(@, ConnectionError(cause))]
       /\ snapshot' = SnapshotAfterAddError(snapshot, ConnectionError(cause))
  /\ timers' = cleanup(Manager).timers
  /\ publishTimer' = cleanup(Manager).publishTimer
  /\ isRunning' = cleanup(Manager).isRunning
  /\ UNCHANGED pubVars
  /\ UNCHANGED engineVars
  /\ UNCHANGED <<lastReadings, adapterCall, lifecycle, processVars>>
  /\ UNCHANGED <<config, startTime, ticks>>

\* the entry a caller adds to the list of a snapshot
CallerEntry == [cause |-> <<>>, text |-> "added by the caller", attempts |-> 0]

\* the caller does snapshot.errors.push(entry)
CallerPushes ==
  /\ snapshot # <<>>
  /\ \A i \in DOMAIN snapshot[1].object.errors :
       snapshot[1].object.errors[i] # CallerEntry
  /\ snapshot' = <<[snapshot[1] EXCEPT !.object.errors = Append(@, CallerEntry)]>>
  /\ IF snapshot[1].shared /\ snapshot[1].owner = 0
       THEN metrics' = [metrics EXCEPT !.errors = Append(@, CallerEntry)]
       ELSE UNCHANGED metrics
  /\ IF snapshot[1].shared /\ snapshot[1].owner # 0
       THEN orphans' = [orphans EXCEPT ![snapshot[1].owner].metrics.errors =
                          Append(@, CallerEntry)]
       ELSE UNCHANGED orphans
  /\ UNCHANGED <<config, isRunning, publishTimer, timers, startTime, connecting, ticks>>
  /\ UNCHANGED pubVars
  /\ UNCHANGED engineVars
  /\ UNCHANGED <<lastReadings, adapterCall, lifecycle, instance, closing, listening>>

\* the caller does snapshot.totalMessagesPublished = 0
CallerResetsCounter ==
  /\ snapshot # <<>>
  /\ snapshot[1].object.totalMessagesPublished # 0
  /\ snapshot' = <<[snapshot[1] EXCEPT !.object.totalMessagesPublished = 0]>>
  /\ UNCHANGED managerVars
  /\ UNCHANGED pubVars
  /\ UNCHANGED engineVars
  /\ UNCHANGED <<lastReadings, adapterCall, lifecycle, processVars>>

\* a step of the scheduler
SchedulerStep ==
  \/ ClockAdvances
  \/ Awaited /\ StartCall
  \/ StartConnected
  \/ SnapshotConnectFailed
  \/ TimerFires
  \/ \E id \in DOMAIN ticks : TickPostOk(id)
  \/ \E id \in DOMAIN ticks : TickBatchOk(id)

\* a step of the caller on the snapshot it holds
CallerStep ==
  \/ CallerPushes
  \/ CallerResetsCounter

\* static getMetrics(): instance?.getMetrics() || null
GetMetricsOfInstance ==
  IF instance
    THEN GetMetrics
    ELSE /\ snapshot' = <<>>
         /\ UNCHANGED <<engineVars, pubVars, managerVars>>
         /\ UNCHANGED <<lastReadings, adapterCall, lifecycle, processVars>>

NextSnapshot ==
  \/ SchedulerStep
  \/ GetMetrics
  \/ CallerStep

SpecSnapshot == Init /\ [][NextSnapshot]_vars

-----------------------------------------------------------------------------
(* The static calls of a caller that awaits startSimulation():             *)
(* startSimulation, stopSimulation and getMetrics, while connect()         *)
(* succeeds or fails                                                       *)

NextStatic ==
  \/ ClockAdvances
  \/ Awaited /\ StartSimulation
  \/ StopSimulation
  \/ \E i \in DOMAIN closing : StopSimulationResumes(i)
  \/ StartConnected
  \/ SnapshotConnectFailed
  \/ GetMetricsOfInstance

SpecStatic == Init /\ [][NextStatic]_vars

-----------------------------------------------------------------------------
(* Either scheduler with a caller that awaits each of its calls and starts *)
(* and stops in both ways: start() and stop() of the scheduler above,      *)
(* which it built with the public constructor or which startSimulation()   *)
(* built, and the static startSimulation() and stopSimulation().  The      *)
(* connection is made and every publish is accepted, and the clock stands  *)
(* still.  A scheduler that was replaced goes on ticking and publishing.   *)

\* the scheduler is a UMHSimulationManager
UmhScheduler == "batchSize" \in DOMAIN config

\* the scheduler is a SimulationManager
MqttScheduler == "outputFormat" \in DOMAIN config

\* the caller makes a static call
StaticCall == Len(lifecycle) < MaxStaticCalls /\ Awaited

InitStarts == Init \/ InitMqtt

NextStarts ==
  \/ UmhScheduler /\ Awaited /\ StartCall
  \/ UmhScheduler /\ StaticCall /\ StartSimulation
  \/ UmhScheduler /\ StartConnected
  \/ UmhScheduler /\ Awaited /\ Stop
  \/ UmhScheduler /\ StaticCall /\ StopSimulation
  \/ UmhScheduler /\ TimerFires
  \/ \E id \in DOMAIN ticks : UmhScheduler /\ TickPostOk(id)
  \/ \E id \in DOMAIN ticks : UmhScheduler /\ TickBatchOk(id)
  \/ \E o \in DOMAIN orphans : UmhScheduler /\ OrphanTimerFires(o)
  \/ \E o \in DOMAIN orphans : \E id \in DOMAIN orphans[o].ticks :
       UmhScheduler /\ OrphanTickPostOk(o, id)
  \/ \E o \in DOMAIN orphans : \E id \in DOMAIN orphans[o].ticks :
       UmhScheduler /\ OrphanTickBatchOk(o, id)
  \/ MqttScheduler /\ Awaited /\ MqttStartCall
  \/ MqttScheduler /\ StaticCall /\ MqttStartSimulation
  \/ MqttScheduler /\ MqttConnected
  \/ MqttScheduler /\ Awaited /\ MqttStop
  \/ MqttScheduler /\ StaticCall /\ MqttStopSimulation
  \/ MqttScheduler /\ MqttTimerFires
  \/ \E id \in DOMAIN ticks : MqttScheduler /\ MqttPublishAcked(id)
  \/ \E o \in DOMAIN orphans : MqttScheduler /\ MqttOrphanTimerFires(o)
  \/ \E o \in DOMAIN orphans : \E id \in DOMAIN orphans[o].ticks :
       MqttScheduler /\ MqttOrphanPublishAcked(o, id)
  \/ \E i \in DOMAIN closing : StopSimulationResumes(i)

SpecStarts == InitStarts /\ [][NextStarts]_vars

-----------------------------------------------------------------------------
(* The standalone scheduler (cnc-simulator-standalone), which publishes    *)
(* over MQTT.  config is [machineCount, simulationInterval]; metrics holds  *)
(* this.stats (startTime holds stats.uptime); publishTimer is the handle    *)
(* this.simulationInterval; CNC_MACHINES is the list of the package and     *)
(* generators maps the id of a machine to its engine, an engine being the   *)
(* ordinal of the createGenerator() call that built it; closing holds the   *)
(* calls of stop() that await mqttClient.endAsync(); ticks holds the calls  *)
(* of publishAllMachineData, each a round [origin, at, machines, handed,    *)
(* settled, timer, armed]: how it was called, when, the number of machines  *)
(* it published data for, the number of messages it handed to               *)
(* mqttClient.publish and the number of callbacks that have run.  The       *)
(* round of a start() stands for the interval timer that                    *)
(* startSimulationLoop() set just before it: `timer` is its own place in    *)
(* ticks, and `armed` tells that the timer has not been cleared.  The       *)
(* round of a timer carries in `timer` the place of the round that stands   *)
(* for that timer.  The clock moves by whole periods, and a timer fires at  *)
(* the whole periods after the instant it was set at.  The broker accepts   *)
(* every publish.                                                           *)

\* the head of the list CNC_MACHINES of the package (cnc-data-generator is
\* not among the sources; the machines are named as the roster names them)
StandaloneMachines == <<[id |-> "cnc-001"], [id |-> "cnc-002"]>>

\* what generator.generateReading() does in a round: it returns a reading
\* that carries a program, it returns one that carries none, or it throws
ReadingOutcomes == {"program", "no program", "throws"}

\* the number of messages convertToUMHMessages makes of a reading: nine
\* sensor messages, one status message, the cycle count, and
\* current_program only when the reading carries a program
convertToUMHMessages(reading) == 9 + 1 + (IF reading = "program" THEN 2 ELSE 1)

\* this.stats as the class sets it
NewStats == [errors |-> 0, messagesPublished |-> 0,
             machinesActive |-> 0, lastPublishTime |-> StartInstant]

\* the state after the constructor: no engine, no client, no timer
InitStandalone ==
  /\ now = StartInstant
  /\ CNC_MACHINES = StandaloneMachines
  /\ generators = <<>>
  /\ NoPublisher
  /\ NoCall
  /\ \E n \in 1 .. 2, p \in {1000, 5000} :
       config = [machineCount |-> n, simulationInterval |-> p]
  /\ isRunning = FALSE
  /\ publishTimer = FALSE
  /\ timers = 0
  /\ startTime = now
  /\ metrics = NewStats
  /\ connecting = 0
  /\ ticks = <<>>

\* the interval timers that are armed, each the place in ticks of the
\* round of the start() that set it
ArmedTimers == {id \in DOMAIN ticks : ticks[id].origin = "start" /\ ticks[id].armed}

\* the timer whose handle this.simulationInterval holds: the one set last
HeldTimer ==
  CHOOSE id \in DOMAIN ticks :
    /\ ticks[id].origin = "start"
    /\ \A later \in DOMAIN ticks : ticks[later].origin = "start" => later <= id

\* the rounds the interval timers have made at this instant
RoundsRun == {id \in DOMAIN ticks : ticks[id].origin = "interval" /\ ticks[id].at = now}

\* a round of an interval timer at this instant has run
RoundRun == RoundsRun # {}

\* the armed timer `timer` is due at this instant, whole periods after the
\* instant it was set at, and has not fired at it
RoundDue(timer) ==
  /\ timer \in ArmedTimers
  /\ now > ticks[timer].at
  /\ \A id \in RoundsRun : ticks[id].timer # timer

\* a period passes, once every timer due at this instant has fired
StandaloneClockAdvances ==
  /\ now < StartInstant + MaxRounds * config.simulationInterval
  /\ \A timer \in ArmedTimers : ~RoundDue(timer)
  /\ now' = now + config.simulationInterval
  /\ UNCHANGED <<CNC_MACHINES, generators>>
  /\ UNCHANGED callVars
  /\ UNCHANGED pubVars
  /\ UNCHANGED managerVars

\* initializeGenerators(): an engine is built for each of the first
\* machineCount machines of the list and stored under the machine's id
initializeGenerators(engines, machineCount) ==
  LET selectedMachines == SubSeq(CNC_MACHINES, 1, Min(machineCount, Len(CNC_MACHINES)))
      built == IF DOMAIN engines = {} THEN 0
               ELSE CHOOSE n \in {engines[m] : m \in DOMAIN engines} :
                      \A m \in DOMAIN engines : engines[m] <= n
      place(m) == CHOOSE i \in DOMAIN selectedMachines : selectedMachines[i].id = m
      ids == {selectedMachines[i].id : i \in DOMAIN selectedMachines}
  IN  [m \in DOMAIN engines \cup ids |->
         IF m \in ids THEN built + place(m) ELSE engines[m]]

\* publishAllMachineData() called as `origin`, for the timer `timer`, by a
\* scheduler whose flag is `running` and whose statistics are `stats`,
\* readings[m] being what the engine of machine m does; `armed` is set on
\* the round of a start().  It returns at once without a client or when
\* the scheduler is not running; else each machine's reading is converted
\* by itself and every message handed to mqttClient.publish, a machine
\* whose engine throws is skipped and counted in stats.errors, and when
\* nothing was handed Promise.all resolves at once and lastPublishTime is
\* set.  The result is <<the round, the statistics>>.
publishAllMachineData(origin, timer, running, stats, readings) ==
  IF mqttClient = <<>> \/ ~running
    THEN <<[machines |-> 0, settled |-> 0, origin |-> origin,
            armed |-> origin = "start", at |-> now, timer |-> timer, handed |-> 0],
           stats>>
    ELSE LET read == {m \in DOMAIN readings : readings[m] # "throws"}
             thrown == DOMAIN readings \ read
             handed == SumOver([m \in read |-> convertToUMHMessages(readings[m])], read)
         IN  <<[machines |-> Cardinality(read), settled |-> 0, origin |-> origin,
                armed |-> origin = "start", at |-> now, timer |-> timer,
                handed |-> handed],
               [stats EXCEPT !.errors = @ + Cardinality(thrown),
                             !.lastPublishTime = IF handed = 0 THEN now ELSE @]>>

\* start() up to `await this.connectMQTT()`: mqtt.connect is called and
\* the client stored.  start() has no guard.
StandaloneStartCall ==
  /\ Len(SelectSeq(ticks, LAMBDA round : round.origin = "start")) + connecting < MaxCalls
  /\ mqttClient' = <<[ended |-> FALSE]>>
  /\ connecting' = connecting + 1
  /\ UNCHANGED <<umhClient, pubCall, sink>>
  /\ UNCHANGED engineVars
  /\ UNCHANGED callVars
  /\ UNCHANGED <<config, isRunning, publishTimer, timers, startTime, metrics, ticks>>

\* the 'connect' event of a client a start() awaits:
\* initializeGenerators(), startSimulationLoop() (which sets the timer,
\* whose handle takes the place of the one held, and calls
\* publishAllMachineData() at once), and only then isRunning = true and
\* stats.uptime = new Date(); the handlers of the client stay registered
StandaloneConnected ==
  /\ connecting > 0
  /\ connecting' = connecting - 1
  /\ LET engines == initializeGenerators(generators, config.machineCount)
         active == [metrics EXCEPT !.machinesActive = Cardinality(DOMAIN engines)]
     IN  /\ generators' = engines
         /\ \E readings \in [DOMAIN engines -> ReadingOutcomes] :
              LET call == publishAllMachineData("start", Len(ticks) + 1, isRunning,
                                                active, readings)
              IN  /\ call[2].errors <= MaxStandaloneErrors
                  /\ ticks' = Append(ticks, call[1])
                  /\ metrics' = call[2]
  /\ timers' = timers + 1
  /\ publishTimer' = TRUE
  /\ isRunning' = TRUE
  /\ startTime' = now
  /\ listening' = TRUE
  /\ UNCHANGED <<now, CNC_MACHINES>>
  /\ UNCHANGED pubVars
  /\ UNCHANGED <<lastReadings, adapterCall, lifecycle, snapshot, instance, orphans, closing>>
  /\ UNCHANGED config

\* the 'error' event of a client a start() awaits: stats.errors++, and
\* start() throws; the client stays stored and its handlers registered
StandaloneConnectError ==
  /\ connecting > 0
  /\ metrics.errors < MaxStandaloneErrors
  /\ connecting' = connecting - 1
  /\ metrics' = [metrics EXCEPT !.errors = @ + 1]
  /\ listening' = TRUE
  /\ UNCHANGED pubVars
  /\ UNCHANGED engineVars
  /\ UNCHANGED <<lastReadings, adapterCall, lifecycle, snapshot, instance, orphans, closing>>
  /\ UNCHANGED <<config, isRunning, publishTimer, timers, startTime, ticks>>

\* the 'error' event of a client no start() awaits, whether the scheduler
\* still holds it or not and whether it was asked to end or not: the
\* handler stays registered, stats.errors++, and reject() has no effect
StandaloneErrorEvent ==
  /\ listening
  /\ metrics.errors < MaxStandaloneErrors
  /\ metrics' = [metrics EXCEPT !.errors = @ + 1]
  /\ UNCHANGED pubVars
  /\ UNCHANGED engineVars
  /\ UNCHANGED callVars
  /\ UNCHANGED <<config, isRunning, publishTimer, timers, startTime, connecting, ticks>>

\* stop() up to `await this.mqttClient.endAsync()`: the flag is cleared,
\* the timer whose handle is held, if any, is cleared, and the client, if
\* one is held, is asked to end.  stop() has no guard.
StandaloneStop ==
  /\ Len(closing) < MaxCalls
  /\ isRunning' = FALSE
  /\ timers' = IF publishTimer THEN timers - 1 ELSE timers
  /\ ticks' = IF publishTimer THEN [ticks EXCEPT ![HeldTimer].armed = FALSE] ELSE ticks
  /\ publishTimer' = FALSE
  /\ IF mqttClient # <<>>
       THEN /\ mqttClient' = <<[ended |-> TRUE]>>
            /\ closing' = Append(closing, [call |-> "stop"])
       ELSE UNCHANGED <<mqttClient, closing>>
  /\ UNCHANGED <<umhClient, pubCall, sink>>
  /\ UNCHANGED engineVars
  /\ UNCHANGED <<lastReadings, adapterCall, lifecycle, snapshot, instance, orphans, listening>>
  /\ UNCHANGED <<config, startTime, metrics, connecting>>

\* endAsync() resolves for the i-th stop() that awaits it: this.mqttClient
\* = null, whichever client the field holds by then
StandaloneClientEnded(i) ==
  /\ closing[i].call = "stop"
  /\ closing' = Without(closing, i)
  /\ mqttClient' = <<>>
  /\ UNCHANGED <<umhClient, pubCall, sink>>
  /\ UNCHANGED engineVars
  /\ UNCHANGED <<lastReadings, adapterCall, lifecycle, snapshot, instance, orphans, listening>>
  /\ UNCHANGED managerVars

\* the interval timer `timer` fires: publishAllMachineData()
StandaloneIntervalFires(timer) ==
  /\ RoundDue(timer)
  /\ \E readings \in [DOMAIN generators -> ReadingOutcomes] :
       LET call == publishAllMachineData("interval", timer, isRunning, metrics, readings)
       IN  /\ call[2].errors <= MaxStandaloneErrors
           /\ ticks' = Append(ticks, call[1])
           /\ metrics' = call[2]
  /\ UNCHANGED pubVars
  /\ UNCHANGED engineVars
  /\ UNCHANGED callVars
  /\ UNCHANGED <<config, isRunning, publishTimer, timers, startTime, connecting>>

\* the callback of the next publish of a round runs without error:
\* stats.messagesPublished++; after the last one Promise.all resolves and
\* lastPublishTime is set.  The broker acknowledges in the order of the
\* publishes.
StandalonePublishAcked(id) ==
  /\ ticks[id].settled < ticks[id].handed
  /\ \A earlier \in 1 .. id - 1 : ticks[earlier].settled = ticks[earlier].handed
  /\ ticks' = [ticks EXCEPT ![id].settled = @ + 1]
  /\ metrics' = [metrics EXCEPT
                   !.messagesPublished = @ + 1,
                   !.lastPublishTime = IF ticks[id].settled + 1 = ticks[id].handed
                                         THEN now ELSE @]
  /\ UNCHANGED pubVars
  /\ UNCHANGED engineVars
  /\ UNCHANGED callVars
  /\ UNCHANGED <<config, isRunning, publishTimer, timers, startTime, connecting>>

\* every publish handed over so far has been acknowledged
Acknowledged == \A id \in DOMAIN ticks : ticks[id].settled = ticks[id].handed

\* the caller starts a scheduler that is not running and awaits its calls;
\* the broker acknowledges a publish within the period
NextStandalone ==
  \/ Acknowledged /\ StandaloneClockAdvances
  \/ ~isRunning /\ Awaited /\ StandaloneStartCall
  \/ StandaloneConnected
  \/ StandaloneConnectError
  \/ StandaloneErrorEvent
  \/ Awaited /\ StandaloneStop
  \/ \E i \in DOMAIN closing : StandaloneClientEnded(i)
  \/ \E timer \in DOMAIN ticks : StandaloneIntervalFires(timer)
  \/ \E id \in DOMAIN ticks : StandalonePublishAcked(id)

SpecStandalone == InitStandalone /\ [][NextStandalone]_vars

\* callers that await neither start() nor stop(), followed for one period
NextStandaloneRace ==
  \/ now = StartInstant /\ Acknowledged /\ StandaloneClockAdvances
  \/ \E timer \in DOMAIN ticks : StandaloneIntervalFires(timer)
  \/ StandaloneStartCall
  \/ StandaloneConnected
  \/ StandaloneConnectError
  \/ StandaloneErrorEvent
  \/ StandaloneStop
  \/ \E i \in DOMAIN closing : StandaloneClientEnded(i)
  \/ \E id \in DOMAIN ticks : StandalonePublishAcked(id)

\* one machine, published every second
InitStandaloneRace ==
  /\ InitStandalone
  /\ config = [machineCount |-> 1, simulationInterval |-> 1000]

SpecStandaloneRace == InitStandaloneRace /\ [][NextStandaloneRace]_vars

-----------------------------------------------------------------------------
(* The scheduler while UMH-Core accepts some publishes and rejects others, *)
(* the timer firing while earlier ticks are still publishing               *)

\* UMH-Core rejects publishes of the first tick only, until MaxErrors
\* errors have been recorded
Rejecting(id) == id = 1 /\ Len(metrics.errors) < MaxErrors

NextOverlap ==
  \/ Awaited /\ StartCall
  \/ StartConnected
  \/ OutageTimerFires
  \/ \E id \in DOMAIN ticks : TickPostOk(id)
  \/ \E id \in DOMAIN ticks : Rejecting(id) /\ TickPostFailed(id)
  \/ \E id \in DOMAIN ticks : TickBackoffElapsed(id)
  \/ \E id \in DOMAIN ticks : TickBatchOk(id)
  \/ \E id \in DOMAIN ticks : Rejecting(id) /\ TickBatchFailed(id)

SpecOverlap == Init /\ [][NextOverlap]_vars

-----------------------------------------------------------------------------
(* Properties of the operational cycle                                     *)

Machines == DOMAIN generators
Cycle(m) == generators[m].currentCycle
Parts(m) == generators[m].totalPartsProduced

\* the edges of the phase state machine
Edges ==
  {<<"idle", "loading">>, <<"loading", "machining">>, <<"machining", "unloading">>,
   <<"unloading", "idle">>, <<"unloading", "maintenance">>, <<"unloading", "error">>,
   <<"maintenance", "idle">>, <<"error", "idle">>}

\* C1: in every tick the phase of every engine stays the same or moves along
\* one of the eight edges of the cycle, and the phase is always one of the six
\* named phases.
C1_PhaseEdges ==
  /\ [](\A m \in Machines : Cycle(m).phase \in Phases)
  /\ [][\A m \in Machines :
          \/ Cycle(m)'.phase = Cycle(m).phase
          \/ <<Cycle(m).phase, Cycle(m)'.phase>> \in Edges]_vars

\* an engine that went idle -> loading -> machining -> unloading -> error
C1_Witness ==
  \E m \in Machines : Cycle(m).phase = "error" /\ Parts(m) >= 1

\* C2: a tick at the current instant changes the phase if and only if the
\* elapsed time has reached the planned duration; a tick before that leaves
\* phase, start time, planned duration and parts count unchanged.
C2_TickFiresIffElapsed ==
  \A m \in Machines : \A kb \in Draws, k \in Draws :
    LET g == generators[m]
        h == generateSensorReadings(g, now, kb, k)
        reached == /\ g.currentCycle.duration # Infinity
                   /\ (now - g.currentCycle.startTime) * RandDen
                        >= g.currentCycle.duration * 1000
    IN /\ (h.currentCycle.phase # g.currentCycle.phase) <=> reached
       /\ ~reached => /\ h.currentCycle = g.currentCycle
                      /\ h.totalPartsProduced = g.totalPartsProduced

\* a machining engine that was ticked at this instant, part of the way
\* through its planned duration, and stayed in machining
C2_Witness ==
  \E m \in Machines :
    /\ Cycle(m).phase = "machining"
    /\ generators[m].lastUpdate = now
    /\ Cycle(m).startTime < now
    /\ ~PhaseCompleted(Cycle(m), now)

\* C3: a second tick at the same instant changes nothing: an engine that
\* has been ticked at `now` keeps its phase, start time, planned duration and
\* parts count when it is ticked at `now` again, whatever the draws.
C3_TickIdempotent ==
  \A m \in Machines :
    generators[m].lastUpdate = now =>
      \A kb \in Draws, k \in Draws :
        LET twice == generateSensorReadings(generators[m], now, kb, k)
        IN /\ twice.currentCycle = Cycle(m)
           /\ twice.totalPartsProduced = Parts(m)

\* an engine whose tick at this instant took machining -> unloading and
\* counted a part
C3_Witness ==
  \E m \in Machines :
    /\ Cycle(m).phase = "unloading"
    /\ Cycle(m).startTime = now
    /\ generators[m].lastUpdate = now
    /\ Parts(m) >= 1

\* C4: the parts count grows by exactly 1 in a step that takes machining ->
\* unloading and is unchanged by every other step.
C4_PartsCountTransitions ==
  [][\A m \in Machines :
       Parts(m)' = Parts(m)
                   + (IF Cycle(m).phase = "machining" /\ Cycle(m)'.phase = "unloading"
                        THEN 1 ELSE 0)]_vars

\* an engine in its third machining phase, two parts produced
C4_Witness ==
  \E m \in Machines : Parts(m) = 2 /\ Cycle(m).phase = "machining"

\* C5: at the instant an engine is built its cycle is decided by the
\* classification of its machine: offline -> idle for ever, maintenance ->
\* maintenance for 3600 s, otherwise idle for 60 to 360 s; no part produced.
C5_InitialCycle ==
  \A m \in Machines :
    now = generators[m].cycleStartTime =>
      /\ Parts(m) = 0
      /\ Cycle(m).startTime = now
      /\ CASE Status(m) = "offline" ->
                Cycle(m).phase = "idle" /\ Cycle(m).duration = Infinity
           [] Status(m) = "maintenance" ->
                Cycle(m).phase = "maintenance" /\ Cycle(m).duration = Sec(3600)
           [] OTHER ->
                /\ Cycle(m).phase = "idle"
                /\ Cycle(m).duration >= Sec(60)
                /\ Cycle(m).duration <= Sec(360)

\* a machine under maintenance, ticked at the instant it was built
C5_Witness ==
  \E m \in Machines :
    /\ Status(m) = "maintenance"
    /\ now = generators[m].cycleStartTime
    /\ generators[m].lastUpdate = now
    /\ Cycle(m).phase = "maintenance"

\* the range declared for the planned duration of a phase, seconds
DeclaredRange(phase) ==
  CASE phase = "loading" -> <<30, 150>>
    [] phase = "machining" -> <<600, 2400>>
    [] phase = "unloading" -> <<15, 75>>
    [] phase = "idle" -> <<60, 360>>
    [] phase = "maintenance" -> <<900, 4500>>
    [] phase = "error" -> <<300, 900>>

InDeclaredRange(cycle) ==
  /\ cycle.duration >= Sec(DeclaredRange(cycle.phase)[1])
  /\ cycle.duration <= Sec(DeclaredRange(cycle.phase)[2])

\* C7: whenever a transition fires, the planned duration of the new phase is
\* in the range declared for it, for every random draw.
C7_DurationInRange ==
  [][\A m \in Machines :
       Cycle(m)' # Cycle(m) => InDeclaredRange(Cycle(m)')]_vars

\* an operational machine sent to maintenance with the largest draw
C7_Witness ==
  \E m \in Machines :
    /\ Status(m) = "operational"
    /\ Cycle(m).phase = "maintenance"
    /\ Cycle(m).duration = RandomDuration(RandDen - 1, 3600, 900)

-----------------------------------------------------------------------------
(* Properties of UMHClient.publish                                         *)

\* the number of failed attempts among the outcomes
Failures(outcomes) == Cardinality({i \in 1 .. Len(outcomes) : ~outcomes[i]})

\* C8: publish makes its attempts one after another, stops at the first that
\* succeeds and never makes more than `retries` of them; a call whose
\* attempts 1 and 2 fail and whose attempt 3 succeeds returns, has waited
\* 1000 ms then 2000 ms, and its message reached the sink once (the step
\* that delivers a message is the step in which the call returns).
C8_PublishRetry ==
  /\ [](pubCall.pc # "idle" =>
          LET n == Len(pubCall.outcomes) IN
          /\ n <= umhClient[1].retries
          /\ \A i \in 1 .. n - 1 : ~pubCall.outcomes[i]
          /\ pubCall.pc = "returned" <=> (n >= 1 /\ pubCall.outcomes[n])
          /\ pubCall.pc = "thrown" => n = umhClient[1].retries
          /\ pubCall.pc \in {"post", "backoff"} => n < umhClient[1].retries
          /\ pubCall.outcomes = <<FALSE, FALSE, TRUE>> =>
               pubCall.delays = <<1000, 2000>>)
  /\ [][sink' # sink =>
          /\ pubCall.pc = "post"
          /\ sink' = Deliver(sink, pubCall.message)
          /\ pubCall'.pc = "returned"]_vars

\* a call of a client with the default ceiling that succeeded at attempt 3
C8_Witness ==
  /\ umhClient[1].retries = DefaultRetries
  /\ pubCall.pc = "returned"
  /\ pubCall.outcomes = <<FALSE, FALSE, TRUE>>
  /\ pubCall.delays = <<1000, 2000>>
  /\ sink = Deliver(<<>>, pubCall.message)

\* C9: the delay waited after failed attempt k < R is min(1000 * 2^(k-1),
\* 5000) ms; nothing is waited after failed attempt R or after a success.
C9_BackoffDelays ==
  pubCall.pc # "idle" =>
    /\ \A k \in 1 .. Len(pubCall.delays) :
         pubCall.delays[k] = Min(1000 * 2 ^ (k - 1), 5000)
    /\ Len(pubCall.delays)
         = Min(Failures(pubCall.outcomes), umhClient[1].retries - 1)

\* a call of a client with ceiling 6 that failed six times: the waits reached
\* the cap
C9_Witness ==
  /\ umhClient[1].retries = 6
  /\ pubCall.pc = "thrown"
  /\ pubCall.delays = <<1000, 2000, 4000, 5000, 5000>>

-----------------------------------------------------------------------------
(* Properties of the scheduler                                             *)

\* the messages the ticks have generated so far
TickMessages ==
  UNION {{ticks[id].messages[j] : j \in DOMAIN ticks[id].messages} : id \in DOMAIN ticks}

\* the messages handed to the publisher so far: those of the calls of publish
\* that were entered and those of the batches that were posted
HandedMessages ==
  UNION {{ticks[id].messages[j] :
            j \in 1 .. (IF ticks[id].messages = <<>> THEN 0
                        ELSE IF ticks[id].call.pc = "idle"
                          THEN Min(ticks[id].i + ticks[id].batchSize - 1,
                                   Len(ticks[id].messages))
                          ELSE ticks[id].i)} : id \in DOMAIN ticks}

\* the location path of the messages of machine m
LocationPath(m) ==
  buildLocationPath(CNC_MACHINES[m].enterprise, CNC_MACHINES[m].site,
                    CNC_MACHINES[m].area, CNC_MACHINES[m].work_cell,
                    CNC_MACHINES[m].machine_id)

\* C6: the engine of an offline machine is idle in every state, whatever the
\* number of ticks of the scheduler, and no message of that machine is among
\* the messages a tick generated, handed to the publisher or delivered.
C6_OfflineNeverPublishes ==
  \A m \in Machines :
    Status(m) = "offline" =>
      /\ Cycle(m).phase = "idle"
      /\ Cycle(m).duration = Infinity
      /\ \A x \in TickMessages \cup HandedMessages \cup DOMAIN sink :
           x.metadata.location_path # LocationPath(m)

\* a tick of a fleet with an offline machine has published all its messages
C6_Witness ==
  /\ \E m \in Machines : Status(m) = "offline"
  /\ \E id \in DOMAIN ticks :
       /\ ticks[id].pc = "done"
       /\ ticks[id].result = "completed"
       /\ ticks[id].messages # <<>>
       /\ \A j \in DOMAIN ticks[id].messages : ticks[id].messages[j] \in DOMAIN sink

\* C10: when the publish of a message of a tick has failed after its
\* retries, the tick still hands every other message it generated to the
\* publisher, and the failure is in the recent-error list.
C10_FailureDoesNotAbortTick ==
  \A id \in DOMAIN ticks :
    (ticks[id].pc = "done" /\ ticks[id].call.pc = "thrown") =>
      /\ \A j \in DOMAIN ticks[id].messages : ticks[id].messages[j] \in HandedMessages
      /\ \E e \in DOMAIN metrics.errors :
           metrics.errors[e] = DeliveryError(umhClient[1], ticks[id].call)

\* the step is a startSimulation() that threw: it is recorded as rejected,
\* and but for the record of the calls nothing has changed
StartSimulationRejected ==
  /\ Len(lifecycle') = Len(lifecycle) + 1
  /\ lifecycle'[Len(lifecycle')].op = "startSimulation"
  /\ lifecycle'[Len(lifecycle')].rejected
  /\ UNCHANGED <<engineVars, pubVars, managerVars>>
  /\ UNCHANGED <<lastReadings, adapterCall, snapshot, processVars>>

\* the step is a startSimulation() that built a second scheduler beside the
\* running one and started it: the running one goes on with its timer, a
\* new client is made and its connection awaited
SecondSchedulerStarted ==
  /\ ~lifecycle'[Len(lifecycle')].rejected
  /\ instance'
  /\ Len(orphans') = Len(orphans) + 1
  /\ orphans'[Len(orphans')].isRunning
  /\ orphans'[Len(orphans')].timers = timers
  /\ ~isRunning'
  /\ connecting' = 1

\* C12 as stated: while the scheduler is running, a further start, be it
\* start() or the static startSimulation(), throws and changes nothing: no
\* timer is added, no client is made, metrics and the flag stay; and one
\* timer is armed in all, so one tick fires per period.
C12_StartWhileRunning ==
  /\ [](isRunning =>
          /\ ~ENABLED (StartCall /\ vars' # vars)
          /\ ~ENABLED (MqttStartCall /\ vars' # vars)
          /\ publishTimer
          /\ timers + OrphanTimers(orphans) = 1)
  /\ [][/\ (UmhScheduler /\ isRunning /\ StartSimulation) => StartSimulationRejected
        /\ (MqttScheduler /\ isRunning /\ MqttStartSimulation) => StartSimulationRejected]_vars

\* C12, amended: while a scheduler is running, start() of it throws and
\* changes nothing, and so does startSimulation() when the static field
\* holds it: no timer is added, no client is made, metrics and the flag
\* stay; every running scheduler has one timer armed, so it ticks once per
\* period.  When the static field does not hold the running scheduler
\* (it was built with the public constructor and started with start()),
\* startSimulation() does not throw: it builds and starts a second
\* scheduler beside it.
C12_StartOfRunningRejected ==
  /\ [](isRunning =>
          /\ ~ENABLED (StartCall /\ vars' # vars)
          /\ ~ENABLED (MqttStartCall /\ vars' # vars)
          /\ publishTimer
          /\ timers = 1)
  /\ [](\A o \in DOMAIN orphans :
          orphans[o].isRunning => orphans[o].publishTimer /\ orphans[o].timers = 1)
  /\ [][/\ (UmhScheduler /\ instance /\ isRunning /\ StartSimulation)
             => StartSimulationRejected
        /\ (MqttScheduler /\ instance /\ isRunning /\ MqttStartSimulation)
             => StartSimulationRejected
        /\ (UmhScheduler /\ ~instance /\ isRunning /\ StartSimulation)
             => SecondSchedulerStarted
        /\ (MqttScheduler /\ ~instance /\ isRunning /\ MqttStartSimulation)
             => SecondSchedulerStarted]_vars

\* a running UMH scheduler with its one timer, whose tick has published:
\* the static field holds it, the last call was a startSimulation() that
\* threw, and a start() of it can be called
C12_Witness ==
  /\ UmhScheduler
  /\ isRunning
  /\ instance
  /\ timers = 1
  /\ orphans = <<>>
  /\ lifecycle # <<>>
  /\ lifecycle[Len(lifecycle)] = [op |-> "startSimulation", awaiting |-> 0, rejected |-> TRUE]
  /\ ENABLED StartCall
  /\ \E id \in DOMAIN ticks : ticks[id].result = "completed"

\* C13: stop() of a scheduler that is not running changes nothing: timer,
\* client, metrics and flag stay; so a second stop() in a row changes nothing
\* after the first.
C13_StopWhenNotRunning ==
  /\ [](~isRunning => ~ENABLED (Stop /\ vars' # vars))
  /\ [][(isRunning /\ ~isRunning' /\ timers' < timers) =>
          /\ stop(Manager)' = Manager'
          /\ timers' = 0
          /\ ~publishTimer']_vars

\* a scheduler that ran, ticked and was stopped
C13_Witness ==
  /\ ~isRunning
  /\ timers = 0
  /\ connecting = 0
  /\ ticks # <<>>
  /\ ENABLED Stop

\* C14: when connect() fails in start(), the failure is recorded, no connect
\* is pending afterwards (it is not tried again), the scheduler is not
\* running and holds no timer; and a tick only ever starts on a running
\* scheduler, so none starts until a later start() succeeds.
C14_ConnectFailureStopsStart ==
  /\ [][(Len(metrics'.errors) > Len(metrics.errors)
           /\ metrics'.errors[Len(metrics'.errors)] \in
                {ConnectionError(cause) : cause \in SchedulerCauses}) =>
          /\ connecting = 1
          /\ connecting' = 0
          /\ ~isRunning'
          /\ ~publishTimer'
          /\ timers' = 0
          /\ ticks' = ticks
          /\ sink' = sink]_vars
  /\ [][ticks' # ticks /\ Len(ticks') > Len(ticks) => isRunning /\ timers > 0]_vars
  /\ [](timers = 0 => ~ENABLED (TimerFires /\ vars' # vars))

\* a scheduler whose first start() failed at connect(): nothing has ticked
C14_Witness ==
  /\ metrics.errors = <<ConnectionError("timeout")>>
  /\ connecting = 0
  /\ ~isRunning
  /\ timers = 0
  /\ ticks = <<>>
  /\ sink = <<>>

\* the step starts a tick
TickStarts == Len(ticks') = Len(ticks) + 1

\* the tick the step started
StartedTick == ticks'[Len(ticks')]

\* the ticks that ended in the catch of publishSensorData
FailedTicks == {id \in DOMAIN ticks : ticks[id].result = "failed"}

\* C11: while every publish is rejected, a step that records a publish
\* failure leaves the running flag, the timer handle and the armed timer as
\* they are; a running scheduler always holds its armed timer; and a tick
\* started on a running scheduler, however many failures came before it,
\* generates the readings of the operational machines and sends the first.
C11_KeepsTickingUnderOutage ==
  /\ [](isRunning => publishTimer /\ timers > 0)
  /\ [][metrics'.errors # metrics.errors =>
          /\ isRunning' = isRunning
          /\ publishTimer' = publishTimer
          /\ timers' = timers]_vars
  /\ [][TickStarts =>
          /\ isRunning
          /\ StartedTick.messages = UMHMessages(OperationalIds, now)
          /\ StartedTick.messages # <<>>
          /\ StartedTick.pc \in {"publish", "batch"}
          /\ StartedTick.pc = "publish" =>
               /\ StartedTick.call.pc = "post"
               /\ StartedTick.call.attempt = 1]_vars

\* the scheduler has run without a stop, a tick has failed and is recorded,
\* and a later tick is publishing
C11_Witness ==
  /\ isRunning
  /\ timers = 1
  /\ 1 \in FailedTicks
  /\ metrics.errors # <<>>
  /\ Len(ticks) >= 2
  /\ ticks[2].pc \in {"publish", "batch"}

\* C17: a timer firing on a running scheduler starts a tick that publishes,
\* whatever the ticks still in flight are doing (awaiting a POST or a
\* backoff): in every running state the timer and the client are there, and
\* every firing of the timer in such a state starts a tick that sends its
\* first message or batch.
C17_TicksOverlap ==
  /\ [](isRunning => (timers > 0 /\ umhClient # <<>>))
  /\ [][(isRunning /\ OutageTimerFires) =>
          (TickStarts /\ StartedTick.pc \in {"publish", "batch"})]_vars

\* two ticks in flight at once: the first waits for its backoff, the second
\* for its POST
C17_Witness ==
  /\ Len(ticks) >= 2
  /\ ticks[1].pc = "publish"
  /\ ticks[1].call.pc = "backoff"
  /\ ticks[2].pc = "publish"
  /\ ticks[2].call.pc = "post"

\* C15: stop() is only taken to its disconnect once every tick in flight has
\* ended, and no message reaches UMH-Core while the scheduler is stopped
\* (after disconnect was called).
C15_StopDrainsInFlight ==
  /\ [][(isRunning /\ ~isRunning') =>
          \A id \in DOMAIN ticks : ticks[id].pc = "done"]_vars
  /\ [][sink' # sink => isRunning]_vars

\* C19: once a tick of the scheduler has ended, completed or failed,
\* activeMachines is the number of machines of the roster that are not
\* offline.
C19_ActiveMachinesAfterTick ==
  (\E id \in DOMAIN ticks : ticks[id].pc = "done") =>
    metrics.activeMachines
      = Cardinality({m \in DOMAIN CNC_MACHINES : Status(m) # "offline"})

\* C18: the recent-error list never holds more than 10 entries, and after n
\* errors were recorded it holds the last min(n, 10) of them, oldest first:
\* the errors numbered n - Len + 1 .. n.
C18_RecentErrors ==
  LET errors == metrics.errors IN
  /\ Len(errors) <= 10
  /\ Len(errors) = Min(Recorded, 10)
  /\ \A i \in DOMAIN errors : errors[i].n = Recorded - Len(errors) + i

\* twelve errors were recorded: the list holds the third to the twelfth
C18_Witness ==
  /\ Len(metrics.errors) = 10
  /\ metrics.errors[1].n = 3
  /\ metrics.errors[10].n = 12

\* the message has a value, a timestamp that is a number other than 0, and
\* a sensor key
IsPublishable(x) ==
  /\ Len(x.payload.value) = 1
  /\ Len(x.payload.timestamp_ms) = 1
  /\ x.payload.timestamp_ms # <<0>>
  /\ Len(x.metadata.tag_name) > 0

\* C20: no message without value, without a numeric non-zero timestamp or
\* without sensor key is among the messages of a tick, handed to the
\* publisher or delivered; and of the readings given to a tick exactly the
\* sound ones are kept, in order, so the tick goes on after a dropped one
\* (a fact about the readings alone, looked at before the first tick).
C20_InvalidNeverPublished ==
  /\ \A x \in TickMessages \cup HandedMessages \cup DOMAIN sink : IsPublishable(x)
  /\ ticks = <<>> =>
       \A readings \in CandidateLists :
         CollectMessages(readings)
           = SelectSeq([i \in DOMAIN readings |-> convertToUMHMessage(readings[i])],
                       IsPublishable)

\* a tick that was given MaxCandidates readings kept fewer, and has
\* delivered what it kept: the reading with value 0
C20_Witness ==
  \E id \in DOMAIN ticks :
    /\ ticks[id].pc = "done"
    /\ ticks[id].result = "completed"
    /\ Len(ticks[id].messages) = 1
    /\ Len(ticks[id].messages) < MaxCandidates
    /\ ticks[id].messages[1].payload.value = <<0>>
    /\ ticks[id].messages[1] \in DOMAIN sink

\* C16: the metrics of a tick (activeMachines, uptime, messagesPerSecond)
\* have been updated only if every publish the tick issued has completed or
\* has had its failure recorded: no tick has its metrics updated while one
\* of its publishes is outstanding.
C16_MetricsAfterPublishes ==
  \A id \in DOMAIN ticks :
    ticks[id].metricsUpdated => ticks[id].settled = Len(ticks[id].messages)

-----------------------------------------------------------------------------
(* Properties of the adapter                                               *)

\* the reading of the call of the adapter, when it converted one
Converted == adapterCall.pc # "idle" /\ adapterCall.reading # <<>>

\* the five segments of the location of a machine, joined with '.'
FiveSegments(machine) ==
  machine.enterprise \o <<".">> \o machine.site \o <<".">> \o machine.area
  \o <<".">> \o machine.work_cell \o <<".">> \o machine.machine_id

\* C30: the message built from a reading has topic = 'umh.v1.' + the five
\* location segments joined by '.' + '._raw.' + tag_name, location_path =
\* the five segments joined by '.', and tag_name = the sensor key with every
\* '-' replaced by '_' and every other character kept; so tag_name has no
\* '-', and normalizing it again changes nothing.
C30_TopicAndTagName ==
  Converted =>
    LET reading == adapterCall.reading[1]
        message == adapterCall.message
        tag == message.metadata.tag_name
    IN /\ message.topic
            = <<"u", "m", "h", ".", "v", "1", ".">> \o FiveSegments(reading.machine)
              \o <<".", "_", "r", "a", "w", ".">> \o tag
       /\ message.metadata.location_path = FiveSegments(reading.machine)
       /\ Len(tag) = Len(reading.sensorType)
       /\ \A i \in DOMAIN tag :
            tag[i] = (IF reading.sensorType[i] = "-" THEN "_" ELSE reading.sensorType[i])
       /\ \A i \in DOMAIN tag : tag[i] # "-"
       /\ TagName(tag) = tag

\* a key with two hyphens was converted
C30_Witness ==
  /\ Converted
  /\ adapterCall.reading[1].sensorType = <<"-", "a", "-">>
  /\ adapterCall.message.metadata.tag_name = <<"_", "a", "_">>

\* the number is finite: not NaN, not infinite
IsFiniteNumber(x) == Len(x) = 1 /\ x[1] # Infinity

\* C21: a message that validateUMHMessage reports valid has a non-empty
\* topic, a timestamp_ms that is a finite number (not NaN, not infinite) and
\* a value that is neither null nor undefined.
C21_ValidHasFiniteTimestamp ==
  (adapterCall.pc = "validated" /\ adapterCall.valid) =>
    /\ adapterCall.message.topic # <<>>
    /\ IsFiniteNumber(adapterCall.message.payload.timestamp_ms)
    /\ adapterCall.message.payload.value # <<>>

-----------------------------------------------------------------------------
(* Properties of the MQTT scheduler                                        *)

\* s.endsWith(suffix)
EndsWith(s, suffix) ==
  /\ Len(s) >= Len(suffix)
  /\ SubSeq(s, Len(s) - Len(suffix) + 1, Len(s)) = suffix

\* the sensor keys of the readings of the machines `ids`, in order
RECURSIVE ReadingKeys(_)
ReadingKeys(ids) ==
  IF ids = <<>> THEN <<>> ELSE Readings(Head(ids)) \o ReadingKeys(Tail(ids))

\* the message is in UMH form: its topic is dotted and starts with umh.v1.
IsUmhMessage(x) == StartsWith(x.topic, <<"u", "m", "h", ".", "v", "1", ".">>)

\* the message is in UNS form: its topic is a path
IsUnsMessage(x) == ~IsUmhMessage(x) /\ \E i \in DOMAIN x.topic : x.topic[i] = "/"

\* C29: in SimulationManager the output format alone decides the messages a
\* reading yields: with 'uns' (or unset) the messages of a tick are one UNS
\* message per reading, in order, and no UMH message; with 'umh' one UMH
\* message per reading and no UNS message; with 'both' one of each.  Which
\* engines a tick runs does not depend on the format: every firing of the
\* timer on a running scheduler runs the operational engines and no other.
C29_FormatDecidesMessages ==
  /\ [](\A id \in DOMAIN ticks :
          LET keys == ReadingKeys(OperationalIds)
              uns == SelectSeq(ticks[id].messages, IsUnsMessage)
              umh == SelectSeq(ticks[id].messages, IsUmhMessage)
          IN /\ Len(uns) + Len(umh) = Len(ticks[id].messages)
             /\ Len(uns) = (IF OutputFormat \in {"uns", "both"} THEN Len(keys) ELSE 0)
             /\ Len(umh) = (IF OutputFormat \in {"umh", "both"} THEN Len(keys) ELSE 0)
             /\ \A i \in DOMAIN uns : EndsWith(uns[i].topic, <<"/">> \o keys[i])
             /\ \A i \in DOMAIN umh : EndsWith(umh[i].topic, <<".">> \o TagName(keys[i]))
             /\ ticks[id].machines = Len(OperationalIds))
  /\ [][(MqttTimerFires /\ isRunning /\ mqttClient # <<>>) =>
          \A m \in DOMAIN generators :
            IF IsOperational(m)
              THEN generators'[m].lastUpdate = now
              ELSE generators'[m] = generators[m]]_vars

\* a tick under 'both' has had both messages of each of its readings
\* acknowledged
C29_Witness ==
  /\ OutputFormat = "both"
  /\ \E id \in DOMAIN ticks :
       /\ Len(ticks[id].messages) = 2 * Len(ReadingKeys(OperationalIds))
       /\ Len(ticks[id].messages) > 0
       /\ ticks[id].settled = Len(ticks[id].messages)

-----------------------------------------------------------------------------
(* Further properties of the scheduler                                     *)

\* the counts kept in the metrics
Counts(m) == <<m.totalMessagesPublished, m.batchesSent, Len(m.errors)>>

\* C22: every validation failure is counted and none is fatal: a tick that
\* was given MaxCandidates readings and kept fewer raises a count kept in
\* the metrics by the number of readings it dropped, and goes on to publish
\* the readings it kept.
C22_ValidationFailuresCounted ==
  [][(TickStarts /\ Len(StartedTick.messages) < MaxCandidates) =>
       /\ \E i \in DOMAIN Counts(metrics) :
            Counts(metrics')[i]
              = Counts(metrics)[i] + (MaxCandidates - Len(StartedTick.messages))
       /\ StartedTick.messages # <<>> => StartedTick.pc \in {"publish", "batch"}]_vars

\* the number of times x occurs in the sequence
Occurrences(seq, x) == Cardinality({i \in DOMAIN seq : seq[i] = x})

\* C23: a tick that has messages sends them in batches (publishBatch) when
\* the configured batch size is above 1 and one by one (publish) when it is
\* 1 or unset; and once the only tick has ended without a failed publish,
\* UMH-Core has received each of its messages exactly once.
C23_BatchSizeDecidesSends ==
  \A id \in DOMAIN ticks :
    /\ (ticks[id].messages # <<>> /\ ticks[id].batchSize > 1) =>
         ticks[id].pc # "publish"
    /\ (ticks[id].messages # <<>> /\ ticks[id].batchSize = 1) =>
         ticks[id].pc # "batch"
    /\ (Len(ticks) = 1 /\ ticks[id].pc = "done" /\ ticks[id].result = "completed") =>
         /\ Delivered(sink) = Len(ticks[id].messages)
         /\ \A x \in DOMAIN sink : sink[x] = Occurrences(ticks[id].messages, x)

\* the error recorded last
LastError(m) == m.errors[Len(m.errors)]

\* C24: publishBatch, like publish, gives up only after as many failed
\* attempts as the retry ceiling of the client: when the batch of a tick
\* fails, the call that failed had made `retries` attempts.
C24_BatchRetries ==
  [][\A id \in DOMAIN ticks :
       (ticks[id].pc = "batch" /\ ticks'[id].result = "failed") =>
         LastError(metrics').attempts = umhClient[1].retries]_vars

\* the sends of a tick that have succeeded: those before the send it is
\* at, or all of them once it has completed
SentBy(tick) ==
  IF tick.result = "completed" THEN Len(tick.messages) ELSE tick.i - 1

\* the calls of publishBatch of a tick that have succeeded
BatchesBy(tick) ==
  IF ~(tick.batchSize > 1 /\ Len(tick.messages) > tick.batchSize) THEN 0
  ELSE IF tick.result = "completed"
    THEN (Len(tick.messages) + tick.batchSize - 1) \div tick.batchSize
  ELSE (tick.i - 1) \div tick.batchSize

RECURSIVE SumSeq(_, _)
SumSeq(Op(_), seq) ==
  IF seq = <<>> THEN 0 ELSE Op(Head(seq)) + SumSeq(Op, Tail(seq))

\* C35: totalMessagesPublished is the number of messages whose publish or
\* publishBatch succeeded (which is the number UMH-Core accepted),
\* batchesSent is the number of publishBatch calls that succeeded, and no
\* step lowers either counter, also when ticks overlap.
C35_CountersMatchSends ==
  /\ [](/\ metrics.totalMessagesPublished = SumSeq(SentBy, ticks)
        /\ metrics.totalMessagesPublished = Delivered(sink)
        /\ metrics.batchesSent = SumSeq(BatchesBy, ticks))
  /\ [][/\ metrics'.totalMessagesPublished >= metrics.totalMessagesPublished
        /\ metrics'.batchesSent >= metrics.batchesSent]_vars

\* two ticks are publishing at once, each after a publish of its own has
\* succeeded, the first waiting to retry a publish that failed
C35_Witness ==
  /\ Len(ticks) = 2
  /\ ticks[1].pc = "publish"
  /\ ticks[1].i > 1
  /\ ticks[1].call.pc = "backoff"
  /\ ticks[2].pc = "publish"
  /\ ticks[2].i > 1
  /\ metrics.totalMessagesPublished = ticks[1].i - 1 + ticks[2].i - 1

\* a start() was called while an earlier start() was awaiting connect(),
\* and passed its guard
StartedWhileConnecting ==
  \E c \in DOMAIN lifecycle :
    /\ lifecycle[c].op \in {"start", "startSimulation"}
    /\ lifecycle[c].awaiting >= 1
    /\ ~lifecycle[c].rejected

\* no start() of any scheduler awaits connect()
AllStartsFinished ==
  /\ connecting = 0
  /\ \A o \in DOMAIN orphans : orphans[o].connecting = 0

\* C33: once a start() (or startSimulation()) called while another start()
\* was awaiting connect() and that other start() have both finished, at most
\* one publish timer is armed over all schedulers, and a timer that is armed
\* is the one whose handle the scheduler holds, so that stop() can cancel
\* it.
C33_OneTimerAfterTwoStarts ==
  (StartedWhileConnecting /\ AllStartsFinished) =>
    /\ timers + OrphanTimers(orphans) <= 1
    /\ timers > 0 => publishTimer
    /\ OrphanTimers(orphans) = 0

\* the call made last is a stop() made while a start() was awaiting
\* connect(), and every call has finished
StoppedWhileConnecting ==
  /\ lifecycle # <<>>
  /\ lifecycle[Len(lifecycle)].op \in {"stop", "stopSimulation"}
  /\ lifecycle[Len(lifecycle)].awaiting >= 1
  /\ AllStartsFinished

\* C34: once a stop() (or stopSimulation()) called while a start() was
\* awaiting connect() and that start() have both finished, the scheduler is stopped: it is not
\* running, no timer is armed, and no step delivers a message to UMH-Core.
C34_StopDuringConnectStops ==
  /\ [](StoppedWhileConnecting =>
          /\ ~isRunning
          /\ timers = 0
          /\ ~publishTimer)
  /\ [][StoppedWhileConnecting => sink' = sink]_vars

\* C38: a snapshot that getMetrics() returned is a value of its own: no
\* step of the scheduler (an error recorded, a tick run, the clock) changes
\* a snapshot already returned, and no change the caller makes to its
\* snapshot changes the metrics of the scheduler.
C38_SnapshotIsAValue ==
  [][/\ (snapshot # <<>> /\ SchedulerStep) => snapshot' = snapshot
     /\ CallerStep => metrics' = metrics]_vars

\* the rounds called as `origin` at instant t that published data for
\* every machine
FullRounds(origin, t) ==
  {id \in DOMAIN ticks :
     /\ ticks[id].origin = origin
     /\ ticks[id].at = t
     /\ ticks[id].machines = config.machineCount}

\* the instants after the start, up to now, at which a period has elapsed
ElapsedPeriods ==
  {startTime + k * config.simulationInterval : k \in 1 .. MaxRounds} \cap
    (startTime + 1 .. IF RoundRun THEN now ELSE now - 1)

\* C39: the standalone scheduler, once started, has published one round of
\* data for all its machines at the instant of the start, and one round
\* at every period elapsed since.
C39_ImmediateRoundThenPeriodic ==
  isRunning =>
    /\ FullRounds("start", startTime) # {}
    /\ \A t \in ElapsedPeriods : Cardinality(FullRounds("interval", t)) = 1

-----------------------------------------------------------------------------
(* Further properties of UMHClient.publish                                 *)

\* C25: a publish whose attempts all failed ends in an error (it does not
\* return, nothing was delivered by it) that names the topic of the message
\* and carries the cause of the last failed attempt: whatever the earlier
\* attempts failed with, the error thrown when the last attempt fails with
\* `cause` carries `cause`.
C25_DeliveryErrorNamesTopic ==
  /\ pubCall.pc = "thrown" =>
       LET error == PublishError(umhClient[1], pubCall) IN
       /\ Failures(pubCall.outcomes) = Len(pubCall.outcomes)
       /\ error.cause = pubCall.lastError
       /\ "topic" \in DOMAIN error
       /\ error.topic = pubCall.message.topic
  /\ (pubCall.pc = "post" /\ pubCall.attempt = umhClient[1].retries) =>
       \A cause \in Causes :
         LET call == PublishPostFailed(umhClient[1], pubCall, cause) IN
         /\ call.pc = "thrown"
         /\ PublishError(umhClient[1], call).cause = <<cause>>

\* the retry ceiling in force for options.retries = option
CeilingInForce(option) ==
  IF option = <<>> \/ option[1] = 0 THEN DefaultRetries ELSE option[1]

\* C40: whatever retry ceiling R a client is configured with (a number from
\* 0 up, or none), its ceiling in force is R when R >= 1 and the default 3
\* when R is 0 or unset; a publish of the client makes at least one attempt,
\* never more attempts than the ceiling in force, and has made exactly that
\* many, all failed, when it reports failure.
C40_AttemptsEqualCeiling ==
  \A option \in RetryOptions :
    /\ NewUMHClient(option).retries = CeilingInForce(option)
    /\ (umhClient = <<NewUMHClient(option)>> /\ pubCall.pc # "idle") =>
         /\ CeilingInForce(option) >= 1
         /\ Len(pubCall.outcomes) <= CeilingInForce(option)
         /\ pubCall.pc \in {"backoff", "returned", "thrown"} =>
              Len(pubCall.outcomes) >= 1
         /\ pubCall.pc = "thrown" =>
              /\ Len(pubCall.outcomes) = CeilingInForce(option)
              /\ Failures(pubCall.outcomes) = CeilingInForce(option)

\* a publish of a client configured with the ceiling 0 has failed after
\* three attempts
C40_Witness ==
  /\ umhClient = <<NewUMHClient(<<0>>)>>
  /\ pubCall.pc = "thrown"
  /\ pubCall.outcomes = <<FALSE, FALSE, FALSE>>

-----------------------------------------------------------------------------
(* Properties of the engines of the factory                                *)

\* floor(p * 5) + 1, with p = elapsed / planned duration clamped to
\* [0, 0.999]; elapsed in ms, the duration as the cycle keeps it
ClampedToolIndex(elapsed, duration) ==
  IF elapsed <= 0 THEN 1
  ELSE IF elapsed * RandDen >= 999 * duration
    THEN (999 * 5) \div 1000 + 1
  ELSE (elapsed * RandDen * 5) \div (duration * 1000) + 1

\* C26: the tool index of a current-tool reading produced while the phase
\* is machining is floor(p * 5) + 1 with p = elapsed / planned duration
\* clamped to [0, 0.999], read on the clock of the reading, so it is one of
\* 1 .. 5 even when that clock is at or past the planned end of the phase;
\* outside machining it is 1.
C26_ToolIndexInRange ==
  lastReadings # <<>> =>
    LET reading == lastReadings[1]
        cycle == generators[reading.machine].currentCycle
    IN IF cycle.phase = "machining"
         THEN /\ reading.currentTool.value
                   = ClampedToolIndex(reading.clock - cycle.startTime, cycle.duration)
              /\ reading.currentTool.value \in 1 .. 5
         ELSE reading.currentTool.value = 1

\* C27: the wear of every tool of every engine is a fraction in [0, 1], and
\* no step lowers it.
C27_WearInRangeAndMonotone ==
  /\ [](\A m \in DOMAIN generators : \A i \in DOMAIN generators[m].toolWearFactors :
          /\ generators[m].toolWearFactors[i] >= 0
          /\ generators[m].toolWearFactors[i] <= WearDen)
  /\ [][\A m \in DOMAIN generators :
          \/ generators'[m].toolWearFactors = generators[m].toolWearFactors
          \/ \A i \in DOMAIN generators[m].toolWearFactors :
               /\ i \in DOMAIN generators'[m].toolWearFactors
               /\ generators'[m].toolWearFactors[i] >= generators[m].toolWearFactors[i]]_vars

\* an engine that has made a part reports, halfway through machining, a
\* tool other than the first, with the wear the constructor drew for it
C27_Witness ==
  /\ lastReadings # <<>>
  /\ lastReadings[1].currentTool.phase = "machining"
  /\ lastReadings[1].currentTool.value > 1
  /\ lastReadings[1].currentTool.tool_wear_percent = 27
  /\ generators[lastReadings[1].machine]
       .toolWearFactors[lastReadings[1].currentTool.value] = InitialWear(RandDen - 1)

\* C28: a step changes the state of an engine (its cycle, its parts count,
\* its tool wear, its baselines, its last update) only if the step is a
\* tick of that engine; the engines of the other machines are left as they
\* were.
C28_TickLeavesOthersUnchanged ==
  [][\A m \in DOMAIN generators :
       generators'[m] # generators[m] =>
         /\ lastReadings' # <<>>
         /\ lastReadings'[1].machine = m
         /\ \A x \in DOMAIN generators \ {m} : generators'[x] = generators[x]]_vars

\* the tick of one engine moved it to another phase while the engine of
\* another machine, ticked at another instant, stayed as it was
C28_Witness ==
  /\ lastReadings # <<>>
  /\ \E m \in DOMAIN generators, x \in DOMAIN generators :
       /\ m # x
       /\ lastReadings[1].machine = m
       /\ generators[m].currentCycle.phase = "loading"
       /\ generators[m].lastUpdate = now
       /\ generators[x].lastUpdate < generators[m].lastUpdate
       /\ generators[x].lastUpdate > StartInstant
       /\ generators[x].currentCycle.phase = "maintenance"

-----------------------------------------------------------------------------
(* Further properties of the operational cycle                             *)

\* the longest time a cycle idle -> loading -> machining -> unloading can
\* be planned to take, seconds
LongestCycle == 360 + 150 + 2400 + 75

\* C36: a step that changes the cycle of an engine takes it along one edge
\* only and counts at most one part, however long ago the phase was over;
\* the new phase starts at the instant of the step, so that no time has
\* elapsed in it.
C36_OneTransitionPerTick ==
  [][\A m \in Machines :
       Cycle(m)' # Cycle(m) =>
         /\ <<Cycle(m).phase, Cycle(m)'.phase>> \in Edges
         /\ Cycle(m)'.startTime = now'
         /\ Parts(m)' <= Parts(m) + 1]_vars

\* an operational engine whose first tick came later than a whole cycle
\* lasts: it has gone from idle to loading, no further
C36_Witness ==
  \E m \in Machines :
    /\ Status(m) = "operational"
    /\ Cycle(m).phase = "loading"
    /\ Parts(m) = 0
    /\ Cycle(m).startTime = now
    /\ now - generators[m].cycleStartTime > LongestCycle * 1000

\* the periods a phase planned for the given seconds lasts at most
PeriodsOf(seconds) == (seconds * 1000 + TickPeriod - 1) \div TickPeriod

\* the periods within which an engine that is ticked in every period has
\* come back to idle, has reached machining and has produced a part,
\* wherever it starts from: at most the longest unloading, maintenance,
\* idle, loading and machining phase, one after the other
LiveMargin ==
  PeriodsOf(DeclaredRange("unloading")[2]) + PeriodsOf(DeclaredRange("maintenance")[2])
  + PeriodsOf(DeclaredRange("idle")[2]) + PeriodsOf(DeclaredRange("loading")[2])
  + PeriodsOf(DeclaredRange("machining")[2])

\* the engine of machine m exists, is not offline, and the clock has at
\* least LiveMargin periods to go
KeepsRunning(m) ==
  /\ m \in Machines
  /\ Status(m) # "offline"
  /\ now + LiveMargin * TickPeriod <= LastLiveInstant

\* the parts an engine can have produced when the clock stops: a part takes
\* four phases, and a phase a period at least
MostParts == MaxLiveSteps \div 4

\* C37: no phase of an engine that is not offline is absorbing: while time
\* keeps advancing and the engine keeps being ticked, from any phase the
\* engine comes back to idle, reaches machining, and produces another part.
C37_NoPhaseAbsorbing ==
  \A m \in DOMAIN Roster :
    /\ KeepsRunning(m) ~> (m \in Machines /\ Cycle(m).phase = "idle")
    /\ KeepsRunning(m) ~> (m \in Machines /\ Cycle(m).phase = "machining")
    /\ \A n \in 0 .. MostParts :
         (KeepsRunning(m) /\ Parts(m) = n) ~> (m \in Machines /\ Parts(m) > n)

\* a machine under maintenance whose engine has left the maintenance phase,
\* produced a part and reached machining again
C37_Witness ==
  \E m \in Machines :
    /\ Status(m) = "maintenance"
    /\ Cycle(m).phase = "machining"
    /\ Parts(m) >= 1

-----------------------------------------------------------------------------
(* Properties of the readings of an engine                                 *)

\* the detailed status the specification gives a phase
StatusOfPhase(phase) ==
  CASE phase = "machining" -> "running"
    [] phase \in {"loading", "unloading"} -> "setup"
    [] OTHER -> phase

\* C31: the operational-status reading of a tick of a machine that the
\* factory ticks (one that is not offline) carries the detailed status of
\* the phase the engine is in, whether the machine is classified
\* operational or under maintenance.
C31_StatusFollowsPhase ==
  \A i \in DOMAIN lastReadings :
    lastReadings[i].operationalStatus.base_status # "offline" =>
      lastReadings[i].operationalStatus.value =
        StatusOfPhase(lastReadings[i].operationalStatus.cycle_phase)

\* the spindle-speed reading a caller got last
SpindleSpeed == lastReadings[1].spindleSpeed

\* C32: the spindle-speed reading is 0 in idle, maintenance and error, a
\* tenth of the maximum in loading and unloading, and in machining between
\* 0.3 * 0.9 and 0.9 * 1.1 times the maximum; it is never negative and
\* never above 0.99 times the maximum.
C32_SpindleSpeedRange ==
  lastReadings # <<>> =>
    /\ SpindleSpeed.phase \in {"idle", "maintenance", "error"} =>
         SpindleSpeed.value = 0
    /\ SpindleSpeed.phase \in {"loading", "unloading"} =>
         10 * SpindleSpeed.value = SpindleSpeed.max_rpm
    /\ SpindleSpeed.phase = "machining" =>
         /\ 100 * SpindleSpeed.value >= 27 * SpindleSpeed.max_rpm
         /\ 100 * SpindleSpeed.value <= 99 * SpindleSpeed.max_rpm
    /\ SpindleSpeed.value >= 0
    /\ 100 * SpindleSpeed.value <= 99 * SpindleSpeed.max_rpm
    /\ (SpindleSpeed.max_rpm = 8100 /\ SpindleSpeed.phase = "machining") =>
         SpindleSpeed.value \in 2187 .. 8019

\* a machining reading at the least speed (the least draw, the sine -1)
\* has been returned, for the machine of 8100 rpm
C32_Witness ==
  /\ lastReadings # <<>>
  /\ SpindleSpeed.phase = "machining"
  /\ SpindleSpeed.max_rpm = 8100
  /\ SpindleSpeed.value = 2187

====
